---------------------------- MODULE Spec2Model ----------------------------
(***************************************************************************)
(* A model of the storage core of GithubManager: the block cache of        *)
(* src/io/cache.c and the indexer of src/io/indexer.c.                     *)
(*                                                                         *)
(* Files are byte sequences on disk; the cache is the struct cache of      *)
(* cache.c with its doubly linked list of lines, its hash table of         *)
(* (key -> line) pairs and the per-line loaded/altered flags.              *)
(***************************************************************************)
EXTENDS Integers, Sequences, FiniteSets, Bags, TLC

(***************************************************************************)
(* Sizes of the model.                                                     *)
(***************************************************************************)
\* bytes per cache line (CACHE_LINE_SIZE of cache.h:38, scaled down)
CACHE_LINE_SIZE == 2
\* the cache is built with line_num in 1..MaxLines
MaxLines == 2
\* pages of the data file that the operations address
NumPages == 2
\* byte values written by setStr are 1..MaxByte
MaxByte == 1
\* operations per behaviour of the single-threaded cache
MaxOps == 3
\* accesses per behaviour of the read-only cache
MaxHist == 4

\* file descriptors of the two open files: a data file and a one-page file
DataFile == 3
SmallFile == 4
Files == {DataFile, SmallFile}
NULL == 0
NoFile == -1
\* an indeterminate byte of memory that malloc returned
Junk == -1

\* what GPOINTER_TO_INT yields for a FILE* : the low bits of the address of a
\* heap object, which is no file descriptor
GPOINTER_TO_INT(file) == 4096 + 16 * file
fileno(file) == file

Min(a, b) == IF a < b THEN a ELSE b
Max(a, b) == IF a > b THEN a ELSE b

VARIABLES
    cache,      \* struct cache: lines, first, last, posLinePairs, line_num
    disk,       \* disk[fd]: the bytes of the file, as the OS holds them
    ret,        \* the buffer filled by the last getStr
    op,         \* the last operation: [name, file, pos, buf, after]
    ghost,      \* history of the run: see GhostInit
    nops,       \* number of operations so far
    hist,       \* the reads made so far, as <<file, pos, n>>
    th,         \* th[t]: where thread t is in its call of getStr
    ix,         \* struct indexer, with the bytes of its files
    ig,         \* history of the indexer: see IdxGhostInit
    lz,         \* struct lazy with the object it wraps, and its history
    fm,         \* a call of readFormat or checkFormat: line, record, result
    user,       \* struct user: the follower, following and friends lists
    dt,         \* a date on its way through getCompactedDate and back
    tm,         \* the task manager: next task, workers, calls of the solver
    ct,         \* the catalog: the files on disk, the build, the load
    qs          \* the queries: the line read, the query parsed, the output

vars == <<cache, disk, ret, op, ghost, nops, hist, th, ix, ig, lz, fm, user,
          dt, tm, ct, qs>>

\* the variables of the dates, the task manager, the catalog and the queries
others == <<dt, tm, ct, qs>>
OthersInit == dt = 0 /\ tm = 0 /\ ct = 0 /\ qs = 0

(***************************************************************************)
(* Disk.                                                                   *)
(***************************************************************************)
\* the byte a file holds at offset o before any write (never 0, all distinct)
InitByte(f, o) == 10 * f + o

\* the data file ends one byte short of a page boundary, the small file holds
\* one byte
FileLen(f, pages) == IF f = DataFile THEN pages * CACHE_LINE_SIZE - 1 ELSE 1

InitDisk(pages) ==
    [f \in Files |-> [i \in 1..FileLen(f, pages) |-> InitByte(f, i - 1)]]

\* pwrite(fd, data, CACHE_LINE_SIZE, pos): writes all of data at pos; a gap
\* between the end of the file and pos reads as zeros
pwrite(d, fd, data, pos) ==
    LET old == d[fd]
        newlen == Max(Len(old), pos + Len(data))
    IN [d EXCEPT ![fd] =
          [i \in 1..newlen |->
              IF i > pos /\ i <= pos + Len(data) THEN data[i - pos]
              ELSE IF i <= Len(old) THEN old[i] ELSE 0]]

\* number of bytes pread(fd, ., CACHE_LINE_SIZE, pos) returns
preadCount(d, fd, pos) == Max(0, Min(CACHE_LINE_SIZE, Len(d[fd]) - pos))

(***************************************************************************)
(* struct cache.                                                           *)
(***************************************************************************)
Lines(c) == 1..c.line_num

Key(fd, pos) == [file_desc |-> fd, pos |-> pos]

\* getCache(line_num): lines[0] is first, lines[line_num-1] is last; the data
\* and lines[0]->altered are not initialised by the code
getCache(line_num, alt0) ==
    [ line_num |-> line_num,
      key      |-> [l \in 1..line_num |-> Key(NoFile, 0)],
      loaded   |-> [l \in 1..line_num |-> FALSE],
      altered  |-> [l \in 1..line_num |-> IF l = 1 THEN alt0 ELSE FALSE],
      data     |-> [l \in 1..line_num |-> [i \in 1..CACHE_LINE_SIZE |-> Junk]],
      prev     |-> [l \in 1..line_num |-> IF l = 1 THEN NULL ELSE l - 1],
      next     |-> [l \in 1..line_num |-> IF l = line_num THEN NULL ELSE l + 1],
      first    |-> 1,
      last     |-> line_num,
      posLinePairs |-> {} ]

\* GHashTable keyed by the pointer &line->key: an entry keeps the hash of the
\* key it was inserted under and compares through the pointer (key_equal)
Entry(k, l) == [hkey |-> k, line |-> l]
g_hash_table_lookup(c, k) ==
    {e \in c.posLinePairs : e.hkey = k /\ c.key[e.line] = k}
g_hash_table_remove(c, k) ==
    [c EXCEPT !.posLinePairs = @ \ g_hash_table_lookup(c, k)]
g_hash_table_insert(c, k, l) ==
    [c EXCEPT !.posLinePairs = (@ \ g_hash_table_lookup(c, k)) \cup {Entry(k, l)}]

\* the line a key is mapped to, NULL if none
Search(c, k) ==
    LET es == g_hash_table_lookup(c, k)
    IN IF es = {} THEN NULL ELSE (CHOOSE e \in es : TRUE).line


(***************************************************************************)
(* The operations thread a record st = [c, disk, g, l, buf]: the cache,    *)
(* the disk, the history g, the line returned by the last getCacheLine     *)
(* and the caller's buffer.                                                *)
(***************************************************************************)
\* the lines of the list from head to tail, following next from first
RECURSIVE Walk(_, _, _)
Walk(c, l, n) ==
    IF l = NULL \/ n = 0 THEN <<>> ELSE <<l>> \o Walk(c, c.next[l], n - 1)
ListOf(c) == Walk(c, c.first, c.line_num + 1)

\* the lines of the list from tail to head, following prev from last
RECURSIVE WalkBack(_, _, _)
WalkBack(c, l, n) ==
    IF l = NULL \/ n = 0 THEN <<>> ELSE <<l>> \o WalkBack(c, c.prev[l], n - 1)
ListBack(c) == WalkBack(c, c.last, c.line_num + 1)

SeqWithout(s, x) == SelectSeq(s, LAMBDA y : y # x)

\* the bytes pread leaves in the line: the bytes of the file, a '\0' after a
\* short read, and whatever the line held before in the rest
preadData(d, k, olddata) ==
    LET n == preadCount(d, k.file_desc, k.pos)
    IN [i \in 1..CACHE_LINE_SIZE |->
          IF i <= n THEN d[k.file_desc][k.pos + i]
          ELSE IF i = n + 1 THEN 0 ELSE olddata[i]]

\* the write of updateCacheLine left out: the line is only marked clean
WriteLineSkipped(st, l) ==
    IF st.c.altered[l]
    THEN [st EXCEPT !.c.altered[l] = FALSE, !.g.pend[l] = {}]
    ELSE st

\* updateCacheLine: if (line->altered) pwrite(...); line->altered = false
WriteLine(st, l) ==
    IF st.c.altered[l]
    THEN [st EXCEPT
            !.disk = pwrite(@, st.c.key[l].file_desc, st.c.data[l], st.c.key[l].pos),
            !.c.altered[l] = FALSE,
            !.g.pend[l] = {}]
    ELSE st

\* updateCacheLine: if (!line->loaded) pread(...); line->loaded = true
ReadLine(st, l) ==
    IF ~st.c.loaded[l]
    THEN [st EXCEPT !.c.data[l] = preadData(st.disk, st.c.key[l], @),
                    !.c.loaded[l] = TRUE,
                    !.g.pend[l] = {}]
    ELSE st

\* updateCacheLine(line, old_key): writes the line if altered, reads it if not
\* loaded; old_key is not used by the code
updateCacheLine(st, l) ==
    IF ~st.c.loaded[l] \/ st.c.altered[l] THEN ReadLine(WriteLine(st, l), l) ELSE st

\* the miss branch of getCacheLine: the tail line is unmapped if loaded,
\* rekeyed, marked not loaded and not altered, and mapped under the new key
Miss(c, l, key) ==
    LET r == IF c.loaded[l] THEN g_hash_table_remove(c, c.key[l]) ELSE c
        k == [r EXCEPT !.key[l] = key, !.loaded[l] = FALSE, !.altered[l] = FALSE]
    IN g_hash_table_insert(k, key, l)

\* a list surgery that leaves c->last on the line it moves
MoveToFrontKeepLast(c, l) ==
    IF l = c.first THEN c
    ELSE LET prev1 == IF l = c.last THEN c.prev
                      ELSE [c.prev EXCEPT ![c.next[l]] = c.prev[l]]
             next1 == [c.next EXCEPT ![c.prev[l]] = c.next[l]]
             next2 == [next1 EXCEPT ![l] = c.first]
             prev2 == [prev1 EXCEPT ![c.first] = l]
             prev3 == [prev2 EXCEPT ![l] = NULL]
         IN [c EXCEPT !.prev = prev3, !.next = next2, !.first = l]

\* the list surgery of getCacheLine: l becomes the head
MoveToFront(c, l) ==
    IF l = c.first THEN c
    ELSE LET last1 == IF l = c.last THEN c.prev[l] ELSE c.last
             prev1 == IF l = c.last THEN c.prev
                      ELSE [c.prev EXCEPT ![c.next[l]] = c.prev[l]]
             next1 == [c.next EXCEPT ![c.prev[l]] = c.next[l]]
             next2 == [next1 EXCEPT ![l] = c.first]
             prev2 == [prev1 EXCEPT ![c.first] = l]
             prev3 == [prev2 EXCEPT ![l] = NULL]
         IN [c EXCEPT !.last = last1, !.prev = prev3, !.next = next2, !.first = l]

\* getCacheLine(c, file_desc, pos) while it holds c->mutex: the lookup, the
\* miss branch and the list surgery; st.l is the line it found
getCacheLineLocked(st, file_desc, pos) ==
    LET c == st.c
        key == Key(file_desc, pos - (pos % CACHE_LINE_SIZE))
        search == Search(c, key)
        hit == search # NULL
        l == IF hit THEN search ELSE c.last
        c1 == IF hit THEN c ELSE Miss(c, l, key)
        g == st.g
    IN [st EXCEPT
          !.c = MoveToFront(c1, l),
          !.l = l,
          !.g.miss = ~hit,
          !.g.tailOK = g.tailOK /\
              (~hit => IF Len(g.recency) < c.line_num
                       THEN \A i \in 1..Len(g.recency) : g.recency[i] # l
                       ELSE l = g.recency[Len(g.recency)]),
          !.g.recency = <<l>> \o SeqWithout(g.recency, l)]

\* the history of an eviction: st is the state before getCacheLine and b the
\* state after it; records whether a mapped, altered line was reused and
\* whether its bytes were on disk at its old key afterwards
RecordEviction(st, b) ==
    LET old_key == st.c.key[b.l]
        dirty == /\ b.g.miss /\ st.c.loaded[b.l] /\ st.c.altered[b.l]
                 /\ Search(st.c, old_key) = b.l
        saved == /\ Len(b.disk[old_key.file_desc]) >= old_key.pos + CACHE_LINE_SIZE
                 /\ \A i \in 1..CACHE_LINE_SIZE :
                       b.disk[old_key.file_desc][old_key.pos + i] = st.c.data[b.l][i]
    IN [b EXCEPT !.g.dirtyEvict = @ \/ dirty,
                 !.g.evictOK = @ /\ (dirty => saved)]

\* getCacheLine after pthread_mutex_unlock(&c->mutex): updateCacheLine(l, old_key)
getCacheLineUpdate(a) == updateCacheLine(a, a.l)

\* getCacheLine(c, file_desc, pos): the locked part, then updateCacheLine on
\* the line
getCacheLine(st, file_desc, pos) ==
    RecordEviction(st, getCacheLineUpdate(getCacheLineLocked(st, file_desc, pos)))

RECURSIVE getStr(_, _, _, _)

\* getStr after its getCacheLine returned r: the memcpy and the call for the
\* bytes on the next line
getStrCopy(r, file, pos, max_write) ==
    LET line_pos == pos % CACHE_LINE_SIZE
        str_len == CACHE_LINE_SIZE - line_pos
        write == Min(str_len, max_write)
        chunk == [i \in 1..write |-> r.c.data[r.l][line_pos + i]]
    IN IF write < max_write
       THEN [getStr(r, file, pos + str_len, max_write - str_len) EXCEPT
                !.buf = chunk \o @]
       ELSE [r EXCEPT !.buf = chunk]

\* getStr(c, file, pos, buffer, max_write): the bytes copied into buffer
getStr(st, file, pos, max_write) ==
    getStrCopy(getCacheLine(st, fileno(file), pos), file, pos, max_write)

RECURSIVE setStr(_, _, _, _)

\* setStr after its getCacheLine returned r: l->altered = true, the memcpy and
\* the call for the bytes on the next line
setStrCopy(r, file, pos, buffer) ==
    LET line_pos == pos % CACHE_LINE_SIZE
        str_len == CACHE_LINE_SIZE - line_pos
        write_cur == Min(str_len, Len(buffer))
        r1 == [r EXCEPT
                 !.c.altered[r.l] = TRUE,
                 !.c.data[r.l] = [i \in 1..CACHE_LINE_SIZE |->
                                    IF i > line_pos /\ i <= line_pos + write_cur
                                    THEN buffer[i - line_pos] ELSE @[i]],
                 !.g.pend[r.l] = @ \cup {line_pos + i : i \in 1..write_cur}]
    IN IF write_cur < Len(buffer)
       THEN setStr(r1, file, pos + str_len, SubSeq(buffer, str_len + 1, Len(buffer)))
       ELSE r1

\* setStr(c, file, pos, buffer, write)
setStr(st, file, pos, buffer) ==
    setStrCopy(getCacheLine(st, fileno(file), pos), file, pos, buffer)

\* g_hash_table_foreach(c->posLinePairs, f, arg) for the callbacks of cache.c:
\* updateCacheLine on the line of every entry the callback selects
RECURSIVE ForEachUpdate(_, _)
ForEachUpdate(st, entries) ==
    IF entries = {} THEN st
    ELSE LET e == CHOOSE x \in entries : TRUE
         IN ForEachUpdate(updateCacheLine(st, e.line), entries \ {e})

\* flushFileAux(key, line, file): the test the callback makes on an entry
flushFileAux(c, e, file) == c.key[e.line].file_desc = file

\* flushCacheFile(c, file) hands the FILE* itself to the callback
flushCacheFile(st, file) ==
    ForEachUpdate(st, {e \in st.c.posLinePairs : flushFileAux(st.c, e, GPOINTER_TO_INT(file))})

\* flushCache(c)
flushCache(st) == ForEachUpdate(st, st.c.posLinePairs)

\* refreshFileAux(key, line, file)
refreshFileAux(c, e, file) == c.key[e.line].file_desc = file

\* refreshCacheFile(c, file): drops the entries of fileno(file)
refreshCacheFile(st, file) ==
    [st EXCEPT !.c.posLinePairs = {e \in @ : ~refreshFileAux(st.c, e, fileno(file))}]

\* refreshCache(c)
refreshCache(st) == [st EXCEPT !.c.posLinePairs = {}]

\* clearFileAux(key, line, file)
clearFileAux(c, e, file) == c.key[e.line].file_desc = file

\* clearCacheFile(c, file): writes the lines of fileno(file) and drops their
\* entries
clearCacheFile(st, file) ==
    LET sel == {e \in st.c.posLinePairs : clearFileAux(st.c, e, fileno(file))}
    IN [ForEachUpdate(st, sel) EXCEPT !.c.posLinePairs = @ \ sel]

\* clearCache(c)
clearCache(st) == [flushCache(st) EXCEPT !.c.posLinePairs = {}]

(***************************************************************************)
(* struct indexer (indexer.c): the index file is a sequence of LINEs       *)
(* (key, value); the values file that groupIndexer writes is a sequence of *)
(* bytes.                                                                  *)
(***************************************************************************)
\* lines of the index sorted in memory at once (MAX_FILE_LINES of
\* indexer.c:24, scaled down)
MAX_FILE_LINES == 2
\* entries inserted into the index
MaxElems == 3
\* the keys and the values inserted, and the keys looked up: those, one below,
\* one between and one above
Keys == {1, 3}
Values == {1, 2}
LookupKeys == Keys \cup {0, 2, 4}

SizeofInt == 4
SizeofPosT == 8
SizeofLINE == 16

LINE(k, v) == [key |-> k, value |-> v]
Lines16 == {LINE(k, v) : k \in Keys, v \in Values}

\* makeIndexer(index_file, keys, values, cmpKeys): an empty index; values is
\* the values file once the index is grouped; cached holds <<slot, key>> for
\* the keys of the index file that the cache has loaded; crashed is set when
\* the process was killed inside an operation
makeIndexer ==
    [ index |-> <<>>, elem_no |-> 0, changed_since_cache_refresh |-> FALSE,
      grouped |-> FALSE, values |-> <<>>, cached |-> {}, crashed |-> FALSE ]

\* the history kept beside the indexer, of the last operation only:
\*   name   the operation; dedup, key and res are its arguments and result
\*   pre    the index file as it was before it, if it was a sort or a group
IdxGhostInit ==
    [ pre |-> <<>>, name |-> "none", dedup |-> FALSE, key |-> 0, res |-> 0 ]

(***************************************************************************)
(* The single-threaded cache: one caller issues the operations of cache.h. *)
(***************************************************************************)
\* the two threads that share the cache
Threads == {1, 2}
Idle == [pc |-> "idle", file |-> NoFile, pos |-> 0, l |-> NULL, buf |-> <<>>, calls |-> 0]

NoOp == [name |-> "none", file |-> NoFile, pos |-> 0, buf |-> <<>>, after |-> <<>>]
Op(name, file, pos, buf) ==
    [name |-> name, file |-> file, pos |-> pos, buf |-> buf, after |-> <<>>]

\* the history kept beside the program's state:
\*   pend[l]     offsets of line l written by setStr since its last load or write
\*   miss        the last getCacheLine was a miss
\*   dirtyEvict  the last operation reused a mapped line that was altered
\*   evictOK     each such line was on disk, at its old key, when getCacheLine returned
\*   tailOK      each miss of the last operation reused the least recently used line
\*   recency     the lines accessed so far, most recent first
\*   written     <<fd, offset, byte>> for every byte set so far (the latest value)
\*   noRefresh   no refresh or clear was called so far
GhostInit(line_num) ==
    [ pend |-> [l \in 1..line_num |-> {}],
      miss |-> FALSE, dirtyEvict |-> FALSE, evictOK |-> TRUE, tailOK |-> TRUE,
      recency |-> <<>>, written |-> {}, noRefresh |-> TRUE ]

CacheInit(pages) ==
    /\ \E line_num \in 1..MaxLines, alt0 \in BOOLEAN :
          /\ cache = getCache(line_num, alt0)
          /\ ghost = GhostInit(line_num)
    /\ disk = InitDisk(pages)
    /\ ret = <<>>
    /\ op = NoOp
    /\ nops = 0
    /\ hist = <<>>
    /\ th = [t \in Threads |-> Idle]
    /\ ix = makeIndexer
    /\ ig = IdxGhostInit
    /\ lz = NULL
    /\ fm = NULL
    /\ user = NULL
    /\ OthersInit

St == [ c |-> cache, disk |-> disk, l |-> NULL, buf |-> <<>>,
        g |-> [ghost EXCEPT !.dirtyEvict = FALSE, !.evictOK = TRUE, !.tailOK = TRUE] ]

Commit(st, o, r) ==
    /\ cache' = st.c
    /\ disk' = st.disk
    /\ ghost' = st.g
    /\ ret' = r
    /\ op' = o
    /\ nops' = nops + 1

\* the reads the caller makes: the first byte of every page of the data file,
\* two bytes across the first page boundary, the first byte of the small file
ReadArgs(pages) ==
    {<<DataFile, pg * CACHE_LINE_SIZE, 1>> : pg \in 0..(pages - 1)}
    \cup {<<DataFile, CACHE_LINE_SIZE - 1, 2>>, <<SmallFile, 0, 1>>}

\* the writes the caller makes: at the places of the reads, any byte 1..MaxByte
WriteArgs(pages) ==
    {<<a[1], a[2], [i \in 1..a[3] |-> b]>> : a \in ReadArgs(pages), b \in 1..MaxByte}

Overwrite(written, file, pos, buffer) ==
    {w \in written : ~(w[1] = file /\ w[2] >= pos /\ w[2] < pos + Len(buffer))}
    \cup {<<file, pos + i - 1, buffer[i]>> : i \in 1..Len(buffer)}

\* the buffer of the caller is what the operation returns
CommitBuf(st, o) == Commit(st, o, st.buf)

GetStr(file, pos, n) ==
    CommitBuf(getStr(St, file, pos, n), Op("getStr", file, pos, [i \in 1..n |-> 0]))

SetStr(file, pos, buffer) ==
    Commit([setStr(St, file, pos, buffer) EXCEPT
               !.g.written = Overwrite(@, file, pos, buffer)],
           Op("setStr", file, pos, buffer), <<>>)

FlushCacheFile(file) ==
    Commit(flushCacheFile(St, file),
           [Op("flushCacheFile", file, 0, <<>>) EXCEPT
               !.after = <<op.name, op.file, op.pos, op.buf>>], <<>>)

FlushCache ==
    Commit(flushCache(St), Op("flushCache", NoFile, 0, <<>>), <<>>)

RefreshCacheFile(file) ==
    Commit([refreshCacheFile(St, file) EXCEPT !.g.noRefresh = FALSE],
           Op("refreshCacheFile", file, 0, <<>>), <<>>)

RefreshCache ==
    Commit([refreshCache(St) EXCEPT !.g.noRefresh = FALSE],
           Op("refreshCache", NoFile, 0, <<>>), <<>>)

ClearCacheFile(file) ==
    Commit([clearCacheFile(St, file) EXCEPT !.g.noRefresh = FALSE],
           Op("clearCacheFile", file, 0, <<>>), <<>>)

ClearCache ==
    Commit([clearCache(St) EXCEPT !.g.noRefresh = FALSE],
           Op("clearCache", NoFile, 0, <<>>), <<>>)

Init == CacheInit(NumPages)

Next ==
    /\ nops < MaxOps
    /\ UNCHANGED <<hist, th, ix, ig, lz, fm, user, others>>
    /\ \/ \E a \in ReadArgs(NumPages) : GetStr(a[1], a[2], a[3])
       \/ \E a \in WriteArgs(NumPages) : SetStr(a[1], a[2], a[3])
       \/ \E f \in Files : FlushCacheFile(f)
       \/ FlushCache
       \/ \E f \in Files : RefreshCacheFile(f)
       \/ RefreshCache
       \/ \E f \in Files : ClearCacheFile(f)
       \/ ClearCache

Spec == Init /\ [][Next]_vars

(***************************************************************************)
(* The read-only cache: one caller reads the first byte of pages, and the  *)
(* keys it asked for are recorded in hist.                                 *)
(***************************************************************************)
LruPages == NumPages + 1

InitLRU == CacheInit(LruPages)

NextLRU ==
    /\ Len(hist) < MaxHist
    /\ UNCHANGED <<th, ix, ig, lz, fm, user, others>>
    /\ \E a \in ReadArgs(LruPages) :
          /\ GetStr(a[1], a[2], a[3])
          /\ hist' = Append(hist, <<a[1], a[2], a[3]>>)

SpecLRU == InitLRU /\ [][NextLRU]_vars

(***************************************************************************)
(* Two threads call getStr(c, file, pos, buffer, 1) on one cache.  A call  *)
(* takes four steps: getCacheLine under c->mutex; the unlocked test of     *)
(* updateCacheLine; its body under line->mutex; the memcpy of getStr,      *)
(* which holds no lock.                                                    *)
(***************************************************************************)
\* calls of getStr per thread
MaxCalls == 2

\* the reads of one byte among ReadArgs
ThreadReads == {a \in ReadArgs(NumPages) : a[3] = 1}

TSt == [ c |-> cache, disk |-> disk, l |-> NULL, buf |-> <<>>, g |-> ghost ]

TCommit(st) ==
    /\ cache' = st.c
    /\ disk' = st.disk
    /\ ghost' = st.g
    /\ UNCHANGED <<ret, op, nops, hist, ix, ig, lz, fm, user, others>>

\* getStr calls getCacheLine, which runs to pthread_mutex_unlock(&c->mutex)
TLookup(t) ==
    /\ th[t].pc = "idle"
    /\ th[t].calls < MaxCalls
    /\ \E a \in ThreadReads :
          LET st == getCacheLineLocked(TSt, fileno(a[1]), a[2])
          IN /\ TCommit(st)
             /\ th' = [th EXCEPT ![t] = [pc |-> "check", file |-> a[1], pos |-> a[2],
                                         l |-> st.l, buf |-> <<>>, calls |-> @.calls + 1]]

\* updateCacheLine: if (!line->loaded || line->altered), read without a lock
TCheck(t) ==
    /\ th[t].pc = "check"
    /\ th' = [th EXCEPT ![t].pc =
                 IF ~cache.loaded[th[t].l] \/ cache.altered[th[t].l]
                 THEN "update" ELSE "copy"]
    /\ UNCHANGED <<cache, disk, ghost, ret, op, nops, hist, ix, ig, lz, fm, user, others>>

\* updateCacheLine: the body, under line->mutex
TUpdate(t) ==
    /\ th[t].pc = "update"
    /\ TCommit(updateCacheLine(TSt, th[t].l))
    /\ th' = [th EXCEPT ![t].pc = "copy"]

\* getStr: memcpy(buffer, l->data + line_pos, 1)
TCopy(t) ==
    /\ th[t].pc = "copy"
    /\ th' = [th EXCEPT ![t].pc = "done",
                        ![t].buf = <<cache.data[th[t].l][(th[t].pos % CACHE_LINE_SIZE) + 1]>>]
    /\ UNCHANGED <<cache, disk, ghost, ret, op, nops, hist, ix, ig, lz, fm, user, others>>

\* getStr returns and the thread may call again
TReturn(t) ==
    /\ th[t].pc = "done"
    /\ th' = [th EXCEPT ![t].pc = "idle"]
    /\ UNCHANGED <<cache, disk, ghost, ret, op, nops, hist, ix, ig, lz, fm, user, others>>

NextConc ==
    \E t \in Threads : TLookup(t) \/ TCheck(t) \/ TUpdate(t) \/ TCopy(t) \/ TReturn(t)

SpecConc == Init /\ [][NextConc]_vars

(***************************************************************************)
(* Claims about the cache.                                                 *)
(***************************************************************************)
\* the mapped lines: those g_hash_table_lookup finds under their own key
Findable(c) == {l \in Lines(c) : Search(c, c.key[l]) = l}

\* the byte of the file at offset o, as a reader that bypasses the cache sees it
DiskByte(f, o) == IF o < Len(disk[f]) THEN disk[f][o + 1] ELSE Junk

\* C1: read-your-writes. As long as no refresh or clear was called, every
\* byte that getStr returns for an offset that setStr wrote is the byte last
\* written there, for every line_num >= 1 and also after evictions.
C1_ReadYourWrites ==
    (op.name = "getStr" /\ ghost.noRefresh) =>
        \A i \in 1..Len(ret) : \A w \in ghost.written :
            (w[1] = op.file /\ w[2] = op.pos + i - 1) => ret[i] = w[3]

\* C2: dirty write-back on eviction. Whenever a miss reuses a mapped line that
\* is altered, the line's data is on disk at its old (file, offset) once
\* getCacheLine has returned.
C2_DirtyEvictionWrittenBack == ghost.dirtyEvict => ghost.evictOK

\* C3: flush durability. After setStr(c, F, p, b, 1) followed by
\* flushCacheFile(c, F), the byte at offset p of F on disk is b and no mapped
\* line of F is altered.
C3_FlushDurable ==
    (/\ op.name = "flushCacheFile"
     /\ op.after[1] = "setStr"
     /\ op.after[2] = op.file
     /\ Len(op.after[4]) = 1) =>
        /\ DiskByte(op.file, op.after[3]) = op.after[4][1]
        /\ \A l \in Findable(cache) :
              cache.key[l].file_desc = fileno(op.file) => ~cache.altered[l]

\* the key of the page that holds offset pos of file
PageKey(file, pos) == Key(fileno(file), pos - (pos % CACHE_LINE_SIZE))

Reverse(q) == [i \in 1..Len(q) |-> q[Len(q) + 1 - i]]

\* C4: LRU replacement. Every miss reuses the line whose last access is the
\* oldest, which is the tail of the list; every access leaves the accessed
\* line at the head, so the list is the lines in order of their last access.
\* With two lines, reading (F,0), (F,LINE), (F,2*LINE) evicts (F,0), and a
\* read of (F,0) after that is a miss that returns the byte at offset 0 of F.
C4_LRU ==
    /\ ghost.tailOK
    /\ LET list == ListOf(cache)
       IN /\ Len(list) = cache.line_num
          /\ {list[i] : i \in 1..Len(list)} = Lines(cache)
          /\ ListBack(cache) = Reverse(list)
          /\ SubSeq(list, 1, Len(ghost.recency)) = ghost.recency
    /\ op.name = "getStr" =>
          /\ cache.first = Search(cache, PageKey(op.file, op.pos + Len(op.buf) - 1))
          /\ ghost.miss => \A i \in 1..Len(ret) : ret[i] = DiskByte(op.file, op.pos + i - 1)
    /\ (/\ cache.line_num = 2
        /\ Len(hist) >= 3
        /\ SubSeq(hist, 1, 3) = << <<DataFile, 0, 1>>,
                                   <<DataFile, CACHE_LINE_SIZE, 1>>,
                                   <<DataFile, 2 * CACHE_LINE_SIZE, 1>> >>) =>
          /\ Len(hist) = 3 => Search(cache, Key(DataFile, 0)) = NULL
          /\ (Len(hist) = 4 /\ hist[4] = <<DataFile, 0, 1>>) =>
                ghost.miss /\ ret = <<InitByte(DataFile, 0)>>

\* C4 witness: the two-line cache after the four reads of the claim
C4_Witness ==
    /\ cache.line_num = 2
    /\ hist = << <<DataFile, 0, 1>>, <<DataFile, CACHE_LINE_SIZE, 1>>,
                 <<DataFile, 2 * CACHE_LINE_SIZE, 1>>, <<DataFile, 0, 1>> >>
    /\ ghost.miss

C6_ConcurrentReadsCorrect ==
    \A t \in Threads :
        th[t].pc = "done" => th[t].buf = <<DiskByte(th[t].file, th[t].pos)>>

(***************************************************************************)
(* The indexer: insertIntoIndex, sortIndexer, groupIndexer, retrieveKey.   *)
(* Keys are embedded and compared by directCmp (catalog.c).                *)
(***************************************************************************)
\* directCmp(f, a, g, b, c): return a < b ? -1 : a > b
directCmp(a, b) == IF a < b THEN -1 ELSE IF a > b THEN 1 ELSE 0

\* insertIntoIndex(i, key, value): the LINE is written at elem_no
insertIntoIndex(i, key, value) ==
    [i EXCEPT !.index = SubSeq(@, 1, i.elem_no) \o <<LINE(key, value)>>
                        \o SubSeq(@, i.elem_no + 2, Len(@)),
              !.changed_since_cache_refresh = TRUE,
              !.elem_no = @ + 1]

\* k of sortIndexer: the number of runs
RunCount(elem_no) == (elem_no + MAX_FILE_LINES - 1) \div MAX_FILE_LINES

\* size of sortIndexer for run j (from 0)
RunSize(elem_no, k, j) == (elem_no \div k) + (IF elem_no % k > j THEN 1 ELSE 0)

\* the LINEs the buffer was allocated for: malloc(elem_no / k * sizeof(LINE))
BufferLines(elem_no, k) == elem_no \div k

\* the runs that the first loop of sortIndexer reads from the index file
RECURSIVE ReadRuns(_, _, _, _)
ReadRuns(rest, elem_no, k, j) ==
    IF rest = <<>> THEN <<>>
    ELSE LET size == Min(RunSize(elem_no, k, j), Len(rest))
         IN <<SubSeq(rest, 1, size)>>
            \o ReadRuns(SubSeq(rest, size + 1, Len(rest)), elem_no, k, j + 1)

\* qsort_r(buffer, size, sizeof(LINE), compareLines, &p): some ordering of the
\* run by key; the order of LINEs with equal keys is not specified
SortedPerms(run) ==
    LET n == Len(run)
        perms == {q \in [1..n -> 1..n] :
                     /\ \A a, b \in 1..n : a # b => q[a] # q[b]
                     /\ \A a, b \in 1..n :
                           a < b => directCmp(run[q[a]].key, run[q[b]].key) <= 0}
    IN {[a \in 1..n |-> run[q[a]]] : q \in perms}

RECURSIVE AllSorted(_)
AllSorted(runs) ==
    IF runs = <<>> THEN {<<>>}
    ELSE {<<r>> \o rest : r \in SortedPerms(Head(runs)), rest \in AllSorted(Tail(runs))}

\* the heap of sortIndexer: heap[0..size-1] are run numbers, values[j] is the
\* LINE last read from run j, pos[j] counts the LINEs read from tmp_files[j]
HeapKey(h, p) == h.values[h.heap[p + 1]].key
SwapHeap(h, a, b) ==
    [h EXCEPT !.heap = [@ EXCEPT ![a + 1] = h.heap[b + 1], ![b + 1] = h.heap[a + 1]]]

\* heapify(h, i, c, elem)
RECURSIVE heapify(_, _)
heapify(h, elem) ==
    LET l == 2 * elem + 1
        r == 2 * elem + 2
        s1 == IF l < h.size /\ directCmp(HeapKey(h, l), HeapKey(h, elem)) < 0
              THEN l ELSE elem
        smallest == IF r < h.size /\ directCmp(HeapKey(h, r), HeapKey(h, s1)) < 0
                    THEN r ELSE s1
    IN IF smallest # elem THEN heapify(SwapHeap(h, elem, smallest), smallest) ELSE h

\* popHeap(h, i, c): the heap after the pop; the run popped is heap[0] before
popHeap(h) ==
    LET h1 == [h EXCEPT !.size = @ - 1]
    IN IF h1.size > 0
       THEN heapify([h1 EXCEPT !.heap[1] = h.heap[h1.size + 1]], 0)
       ELSE h1

\* the loop of pushHeap: parent = (pos - 1) / 2
RECURSIVE SiftUp(_, _)
SiftUp(h, pos) ==
    LET parent == IF pos = 0 THEN 0 ELSE (pos - 1) \div 2
    IN IF pos # 0 /\ directCmp(HeapKey(h, parent), HeapKey(h, pos)) > 0
       THEN SiftUp(SwapHeap(h, pos, parent), parent)
       ELSE h

\* pushHeap(h, i, c, val)
pushHeap(h, val) ==
    SiftUp([h EXCEPT !.heap[h.size + 1] = val, !.size = @ + 1], h.size)

\* fread(&h.values[j], sizeof(LINE), 1, tmp_files[j]) and the push if it read
ReadAndPush(h, runs, j) ==
    IF h.pos[j] < Len(runs[j])
    THEN pushHeap([h EXCEPT !.values[j] = runs[j][h.pos[j] + 1], !.pos[j] = @ + 1], j)
    ELSE h

RECURSIVE FillHeap(_, _, _)
FillHeap(h, runs, j) ==
    IF j > Len(runs) THEN h ELSE FillHeap(ReadAndPush(h, runs, j), runs, j + 1)

\* the merge loop of sortIndexer: the LINEs written back to the index
RECURSIVE MergeRuns(_, _)
MergeRuns(h, runs) ==
    IF h.size = 0 THEN <<>>
    ELSE LET branch == h.heap[1]
             line == h.values[branch]
         IN <<line>> \o MergeRuns(ReadAndPush(popHeap(h), runs, branch), runs)

EmptyHeap(k) ==
    [ heap |-> [j \in 1..k |-> Junk], values |-> [j \in 1..k |-> LINE(Junk, Junk)],
      pos |-> [j \in 1..k |-> 0], size |-> 0 ]

\* sortIndexer(i, c) from the sorted runs on: the merged LINEs replace the
\* first LINEs of the index file
sortIndexerMerge(i, runs) ==
    LET merged == MergeRuns(FillHeap(EmptyHeap(Len(runs)), runs, 1), runs)
    IN [i EXCEPT !.index = merged \o SubSeq(@, Len(merged) + 1, Len(@)),
                 !.changed_since_cache_refresh = TRUE]

\* what fread leaves in a run of size LINEs read into a buffer of cap LINEs:
\* the LINEs past cap are written outside the allocation
Overflows(elem_no) ==
    elem_no > 0 /\ \E j \in 0..(RunCount(elem_no) - 1) :
        RunSize(elem_no, RunCount(elem_no), j) > BufferLines(elem_no, RunCount(elem_no))

Clobber(runs, cap, junk) ==
    [j \in 1..Len(runs) |->
        [a \in 1..Len(runs[j]) |-> IF a > cap THEN junk ELSE runs[j][a]]]

\* sortIndexer(i, c): ub is what the build made of a read past the end of
\* buffer ("fits": the bytes past the allocation were free to use, "clobber":
\* they were overwritten by junk before the run was written out, "crash") and
\* of the division by k = 0 ("fits": the quotient is some number, "crash")
sortIndexer(i, ub, sorted) ==
    IF i.elem_no = 0
    THEN IF ub = "crash" THEN [i EXCEPT !.crashed = TRUE]
         ELSE [i EXCEPT !.changed_since_cache_refresh = TRUE]
    ELSE IF Overflows(i.elem_no) /\ ub = "crash" THEN [i EXCEPT !.crashed = TRUE]
    ELSE sortIndexerMerge(i, sorted)

\* the runs as qsort_r finds them in buffer
RunsInBuffer(i, ub, junk) ==
    LET k == RunCount(i.elem_no)
        runs == ReadRuns(SubSeq(i.index, 1, i.elem_no), i.elem_no, k, 0)
    IN IF ub = "clobber" THEN Clobber(runs, BufferLines(i.elem_no, k), junk) ELSE runs

(***************************************************************************)
(* groupIndexer: the values file is a sequence of bytes, an int is 4 bytes *)
(* and a pos_t 8 bytes, least significant byte first.                      *)
(***************************************************************************)
RECURSIVE ToBytes(_, _)
ToBytes(v, n) == IF n = 0 THEN <<>> ELSE <<v % 256>> \o ToBytes(v \div 256, n - 1)

RECURSIVE FromBytes(_)
FromBytes(b) == IF b = <<>> THEN 0 ELSE Head(b) + 256 * FromBytes(Tail(b))

\* fseek(f, off, SEEK_SET); fwrite(bytes): a hole left by the seek reads as 0
WriteAt(f, off, bytes) ==
    LET n == Max(Len(f), off + Len(bytes))
    IN [a \in 1..n |->
          IF a > off /\ a <= off + Len(bytes) THEN bytes[a - off]
          ELSE IF a <= Len(f) THEN f[a] ELSE 0]

\* fseek(f, off, SEEK_SET); fread of one object of n bytes
ReadAt(f, off, n) == FromBytes(SubSeq(f, off + 1, off + n))

\* fread(*aux, sizeof(pos_t), elems, f) at pos
ReadPosTs(f, pos, elems) ==
    [a \in 1..elems |-> ReadAt(f, pos + SizeofPosT * (a - 1), SizeofPosT)]

\* fwrite(*aux, sizeof(pos_t), n, f) at pos
RECURSIVE WritePosTs(_, _, _)
WritePosTs(f, pos, vals) ==
    IF vals = <<>> THEN f
    ELSE WritePosTs(WriteAt(f, pos, ToBytes(Head(vals), SizeofPosT)),
                    pos + SizeofPosT, Tail(vals))

\* compareAux(a, b)
compareAux(a, b) == IF b > a THEN -1 ELSE IF b < a THEN 1 ELSE 0

\* qsort(*aux, elems, sizeof(pos_t), compareAux): equal pos_t are the same
RECURSIVE InsertSorted(_, _)
InsertSorted(sorted, v) ==
    IF sorted = <<>> \/ compareAux(v, Head(sorted)) <= 0 THEN <<v>> \o sorted
    ELSE <<Head(sorted)>> \o InsertSorted(Tail(sorted), v)

RECURSIVE qsortAux(_)
qsortAux(aux) ==
    IF aux = <<>> THEN <<>> ELSE InsertSorted(qsortAux(Tail(aux)), Head(aux))

\* the loop of removeDuplicatesAux: keep aux[i] if it differs from aux[last]
RECURSIVE Unique(_)
Unique(aux) ==
    IF Len(aux) <= 1 THEN aux
    ELSE IF aux[1] = aux[2] THEN Unique(Tail(aux))
    ELSE <<aux[1]>> \o Unique(Tail(aux))

\* removeDuplicatesAux without the qsort
removeDuplicatesNoSort(f, pos, elems) ==
    LET aux == Unique(ReadPosTs(f, pos, elems))
    IN [out |-> WritePosTs(f, pos, aux), n |-> Len(aux)]

\* removeDuplicatesAux(f, pos, elems, aux, aux_size): the file and the new size
removeDuplicatesAux(f, pos, elems) ==
    LET aux == Unique(qsortAux(ReadPosTs(f, pos, elems)))
    IN [out |-> WritePosTs(f, pos, aux), n |-> Len(aux)]

\* groupIndexer up to the loop: the first LINE opens the first block
GroupFirst(l) ==
    [ dest |-> <<LINE(l.key, 0)>>,
      out |-> WriteAt(<<>>, SizeofInt, ToBytes(l.value, SizeofPosT)),
      out_block |-> 0, out_pos |-> SizeofInt + SizeofPosT,
      last_key |-> l.key, block_length |-> 1, block_no |-> 1 ]

\* the end of a block, with the count written where the values are
CloseBlockAtPos(g, removeDuplicateVals) ==
    LET rd == IF removeDuplicateVals
              THEN removeDuplicatesAux(g.out, g.out_block + SizeofInt, g.block_length)
              ELSE [out |-> g.out, n |-> g.block_length]
        pos == IF removeDuplicateVals
               THEN g.out_block + SizeofInt + SizeofPosT * rd.n
               ELSE g.out_pos
    IN [g EXCEPT !.out = WriteAt(rd.out, g.out_block + SizeofInt, ToBytes(rd.n, SizeofInt)),
                 !.block_length = rd.n,
                 !.out_pos = pos]

\* the end of a block: removeDuplicatesAux if asked for, then the count is
\* written at out_block
CloseBlock(g, removeDuplicateVals) ==
    LET rd == IF removeDuplicateVals
              THEN removeDuplicatesAux(g.out, g.out_block + SizeofInt, g.block_length)
              ELSE [out |-> g.out, n |-> g.block_length]
        pos == IF removeDuplicateVals
               THEN g.out_block + SizeofInt + SizeofPosT * rd.n
               ELSE g.out_pos
    IN [g EXCEPT !.out = WriteAt(rd.out, g.out_block, ToBytes(rd.n, SizeofInt)),
                 !.block_length = rd.n,
                 !.out_pos = pos]

\* one turn of the while loop of groupIndexer for the LINE l
GroupStep(g, l, removeDuplicateVals) ==
    LET cmp == directCmp(l.key, g.last_key)
        g1 == IF cmp = 0 THEN [g EXCEPT !.block_length = @ + 1]
              ELSE LET cb == CloseBlock(g, removeDuplicateVals)
                   IN [cb EXCEPT !.out_block = cb.out_pos,
                                 !.out_pos = cb.out_pos + SizeofInt,
                                 !.dest = Append(@, LINE(l.key, cb.out_pos)),
                                 !.last_key = l.key,
                                 !.block_length = 1,
                                 !.block_no = @ + 1]
    IN [g1 EXCEPT !.out = WriteAt(@, g1.out_pos, ToBytes(l.value, SizeofPosT)),
                  !.out_pos = @ + SizeofPosT]

RECURSIVE GroupLoop(_, _, _)
GroupLoop(g, rest, removeDuplicateVals) ==
    IF rest = <<>> THEN g
    ELSE GroupLoop(GroupStep(g, Head(rest), removeDuplicateVals), Tail(rest),
                   removeDuplicateVals)

\* groupIndexer that leaves elem_no as it was
groupIndexerKeepCount(i, removeDuplicateVals) ==
    IF i.elem_no # 0
    THEN LET g == CloseBlock(GroupLoop(GroupFirst(Head(i.index)), Tail(i.index),
                                       removeDuplicateVals), removeDuplicateVals)
         IN [i EXCEPT !.index = g.dest,
                      !.changed_since_cache_refresh = TRUE,
                      !.grouped = TRUE, !.values = g.out]
    ELSE [i EXCEPT !.index = <<>>, !.changed_since_cache_refresh = TRUE,
                   !.grouped = TRUE, !.values = <<>>]

\* groupIndexer(i, value_file, removeDuplicateVals, c)
groupIndexer(i, removeDuplicateVals) ==
    IF i.elem_no # 0
    THEN LET g == CloseBlock(GroupLoop(GroupFirst(Head(i.index)), Tail(i.index),
                                       removeDuplicateVals), removeDuplicateVals)
         IN [i EXCEPT !.index = g.dest, !.elem_no = g.block_no,
                      !.changed_since_cache_refresh = TRUE,
                      !.grouped = TRUE, !.values = g.out]
    ELSE [i EXCEPT !.index = <<>>, !.changed_since_cache_refresh = TRUE,
                   !.grouped = TRUE, !.values = <<>>]

(***************************************************************************)
(* retrieveKey reads the keys of the index through the cache.              *)
(***************************************************************************)
\* flushIndex(i, c): refreshCacheFile reloads every line of the index file
flushIndex(i) ==
    IF i.changed_since_cache_refresh
    THEN [i EXCEPT !.cached = {}, !.changed_since_cache_refresh = FALSE]
    ELSE i

\* getPosT(c, i->index, slot * sizeof(LINE)): the key the cache holds for the
\* slot, loaded from the index file if the cache has none
getPosT(i, slot) ==
    IF \E e \in i.cached : e[1] = slot
    THEN (CHOOSE e \in i.cached : e[1] = slot)[2]
    ELSE i.index[slot + 1].key

LoadPosT(i, slot) ==
    IF \E e \in i.cached : e[1] = slot THEN i
    ELSE [i EXCEPT !.cached = @ \cup {<<slot, i.index[slot + 1].key>>}]

\* the branches of the loop of retrieveKey with an equal key sent to the right
retrieveKeyStepRight(cmp, l, r, m) ==
    IF cmp < 0 THEN [l |-> l, r |-> m - 1]
    ELSE IF cmp > 0 THEN [l |-> m + 1, r |-> r]
    ELSE [l |-> m + 1, r |-> r]

\* the branches of the loop of retrieveKey
retrieveKeyStep(cmp, l, r, m) ==
    IF cmp < 0 THEN [l |-> l, r |-> m - 1]
    ELSE IF cmp > 0 THEN [l |-> m + 1, r |-> r]
    ELSE [l |-> l, r |-> m]

\* while (m = (l + r) / 2, l < r) of retrieveKey, then the last comparison
RECURSIVE retrieveKeyLoop(_, _, _, _)
retrieveKeyLoop(i, key, l, r) ==
    IF l < r
    THEN LET m == (l + r) \div 2
             lr == retrieveKeyStep(directCmp(key, getPosT(i, m)), l, r, m)
         IN retrieveKeyLoop(LoadPosT(i, m), key, lr.l, lr.r)
    ELSE [i |-> LoadPosT(i, l),
          res |-> IF directCmp(key, getPosT(i, l)) = 0 THEN l ELSE -1]

\* retrieveKey(i, key, c)
retrieveKey(i, key) ==
    LET i1 == flushIndex(i)
    IN IF i1.elem_no = 0 THEN [i |-> i1, res |-> -1]
       ELSE retrieveKeyLoop(i1, key, 0, i1.elem_no - 1)

\* the branches of the loop of retrieveKeyLowerBound with an equal key sent to
\* the right
retrieveKeyLowerBoundStepRight(cmp, l, r, m) ==
    IF cmp < 0 THEN [l |-> l, r |-> m - 1]
    ELSE [l |-> m + 1, r |-> r]

\* the branches of the loop of retrieveKeyLowerBound
retrieveKeyLowerBoundStep(cmp, l, r, m) ==
    IF cmp < 0 THEN [l |-> l, r |-> m - 1]
    ELSE IF cmp > 0 THEN [l |-> m + 1, r |-> r]
    ELSE [l |-> l, r |-> m]

\* while (m = (l + r) / 2, l < r) of retrieveKeyLowerBound, then the last
\* comparison
RECURSIVE retrieveKeyLowerBoundLoop(_, _, _, _)
retrieveKeyLowerBoundLoop(i, key, l, r) ==
    IF l < r
    THEN LET m == (l + r) \div 2
             lr == retrieveKeyLowerBoundStep(directCmp(key, getPosT(i, m)), l, r, m)
         IN retrieveKeyLowerBoundLoop(LoadPosT(i, m), key, lr.l, lr.r)
    ELSE [i |-> LoadPosT(i, l),
          res |-> IF directCmp(key, getPosT(i, l)) <= 0 THEN l ELSE l + 1]

\* retrieveKeyLowerBound(i, key, c)
retrieveKeyLowerBound(i, key) ==
    IF i.elem_no = 0 THEN [i |-> flushIndex(i), res |-> 0]
    ELSE retrieveKeyLowerBoundLoop(flushIndex(i), key, 0, i.elem_no - 1)

\* freeIndexer(i, c): flushIndex and fclose; the index file stays as written
freeIndexer(i) == flushIndex(i)

\* parseIndexer / parseGroupedIndexer on the index file of i: elem_no is
\* ftell(i->index) / sizeof(LINE) at the end of the file
parseIndexer(i) ==
    [i EXCEPT !.changed_since_cache_refresh = FALSE,
              !.elem_no = (Len(i.index) * SizeofLINE) \div SizeofLINE]

(***************************************************************************)
(* One caller builds an index: insertIntoIndex, sortIndexer, groupIndexer  *)
(* and retrieveKey in any order, until the index is grouped or the process *)
(* is killed.                                                              *)
(***************************************************************************)
\* what the build can make of sortIndexer on this index
UBOutcomes(i) ==
    IF i.elem_no = 0 THEN {"fits", "crash"}
    ELSE IF Overflows(i.elem_no) THEN {"fits", "clobber", "crash"}
    ELSE {"fits"}

\* the LINEs that can be found in the bytes past the allocation
JunkLines(ub) == IF ub = "clobber" THEN Lines16 ELSE {LINE(Junk, Junk)}

InsertIntoIndex(key, value) ==
    /\ ~ix.grouped
    /\ ix.elem_no < MaxElems
    /\ ix' = insertIntoIndex(ix, key, value)
    /\ ig' = [IdxGhostInit EXCEPT !.name = "insertIntoIndex"]

SortIndexer ==
    /\ ~ix.grouped
    /\ \E ub \in UBOutcomes(ix) :
          \E junk \in JunkLines(ub) :
             \E sorted \in AllSorted(RunsInBuffer(ix, ub, junk)) :
                ix' = sortIndexer(ix, ub, sorted)
    /\ ig' = [IdxGhostInit EXCEPT !.name = "sortIndexer", !.pre = ix.index]

GroupIndexer(removeDuplicateVals) ==
    /\ ~ix.grouped
    /\ ix' = groupIndexer(ix, removeDuplicateVals)
    /\ ig' = [IdxGhostInit EXCEPT !.name = "groupIndexer", !.pre = ix.index,
                                  !.dedup = removeDuplicateVals]

RetrieveKey(key) ==
    LET r == retrieveKey(ix, key)
    IN /\ ix' = r.i
       /\ ig' = [IdxGhostInit EXCEPT !.name = "retrieveKey", !.key = key, !.res = r.res]

RetrieveKeyLowerBound(key) ==
    LET r == retrieveKeyLowerBound(ix, key)
    IN /\ ix' = r.i
       /\ ig' = [IdxGhostInit EXCEPT !.name = "retrieveKeyLowerBound", !.key = key,
                                     !.res = r.res]

\* the index is closed and opened again; res is elem_no before
ParseIndexer ==
    /\ ix' = parseIndexer(freeIndexer(ix))
    /\ ig' = [IdxGhostInit EXCEPT !.name = "parseIndexer", !.res = ix.elem_no]

InitIdx ==
    /\ cache = getCache(1, FALSE)
    /\ ghost = GhostInit(1)
    /\ disk = InitDisk(NumPages)
    /\ ret = <<>>
    /\ op = NoOp
    /\ nops = 0
    /\ hist = <<>>
    /\ th = [t \in Threads |-> Idle]
    /\ ix = makeIndexer
    /\ ig = IdxGhostInit
    /\ lz = NULL
    /\ fm = NULL
    /\ user = NULL
    /\ OthersInit

NextIdx ==
    /\ ~ix.crashed
    /\ UNCHANGED <<cache, disk, ret, op, ghost, nops, hist, th, lz, fm, user, others>>
    /\ \/ \E key \in Keys, value \in Values : InsertIntoIndex(key, value)
       \/ SortIndexer
       \/ \E removeDuplicateVals \in BOOLEAN : GroupIndexer(removeDuplicateVals)
       \/ \E key \in LookupKeys : RetrieveKey(key)
       \/ \E key \in LookupKeys : RetrieveKeyLowerBound(key)
       \/ ParseIndexer

SpecIdx == InitIdx /\ [][NextIdx]_vars

(***************************************************************************)
(* Properties of the indexer.                                              *)
(***************************************************************************)
\* the LINEs of an index file are in the order of directCmp
IsSorted(index) ==
    \A a, b \in 1..Len(index) : a < b => directCmp(index[a].key, index[b].key) <= 0

RECURSIVE SeqToBag(_)
SeqToBag(seq) ==
    IF seq = <<>> THEN EmptyBag ELSE SetToBag({Head(seq)}) (+) SeqToBag(Tail(seq))

\* the values of the LINEs of index with the key k, in the order of the index
RECURSIVE ValuesOf(_, _)
ValuesOf(index, k) ==
    IF index = <<>> THEN <<>>
    ELSE (IF Head(index).key = k THEN <<Head(index).value>> ELSE <<>>)
         \o ValuesOf(Tail(index), k)

KeysOf(index) == {index[a].key : a \in 1..Len(index)}

\* the block of the values file at offset off: its count and its values
BlockCount(values, off) == ReadAt(values, off, SizeofInt)
BlockValues(values, off) ==
    ReadPosTs(values, off + SizeofInt, BlockCount(values, off))

\* the index has one LINE for each key of pre, in the order of the keys
OnePerKey(index, elem_no, pre) ==
    /\ elem_no = Cardinality(KeysOf(pre))
    /\ Len(index) = elem_no
    /\ KeysOf(index) = KeysOf(pre)
    /\ \A a, b \in 1..Len(index) : a < b => directCmp(index[a].key, index[b].key) < 0

\* the values of seq in increasing order, each once
RECURSIVE SortedSet(_)
SortedSet(S) ==
    IF S = {} THEN <<>>
    ELSE LET m == CHOOSE x \in S : \A y \in S : x <= y
         IN <<m>> \o SortedSet(S \ {m})

Range(seq) == {seq[a] : a \in 1..Len(seq)}

\* C7: after sortIndexer on an index of N >= 1 LINEs, for every N and every
\* MAX_FILE_LINES, the process is alive, the keys are in the order of
\* directCmp, elem_no is still N and the index holds the same multiset of
\* (key, value) LINEs as before.
C7_SortCorrect ==
    (ig.name = "sortIndexer" /\ Len(ig.pre) >= 1) =>
        /\ ~ix.crashed
        /\ IsSorted(ix.index)
        /\ ix.elem_no = Len(ig.pre)
        /\ Len(ix.index) = Len(ig.pre)
        /\ SeqToBag(ix.index) = SeqToBag(ig.pre)

\* C8: after groupIndexer without removeDuplicateVals on a sorted index, the
\* index holds one LINE per distinct key in key order, elem_no is the number
\* of distinct keys, and the LINE of key k points to a block whose count is the
\* number of LINEs that had the key k and whose values are their values.
C8_GroupNoDedup ==
    (ig.name = "groupIndexer" /\ ~ig.dedup /\ IsSorted(ig.pre)) =>
        /\ OnePerKey(ix.index, ix.elem_no, ig.pre)
        /\ \A a \in 1..Len(ix.index) :
              /\ BlockCount(ix.values, ix.index[a].value)
                    = Len(ValuesOf(ig.pre, ix.index[a].key))
              /\ BlockValues(ix.values, ix.index[a].value)
                    = ValuesOf(ig.pre, ix.index[a].key)

\* a sorted index with a key held by several LINEs and a second key was
\* grouped without removeDuplicateVals
C8_Witness ==
    /\ ig.name = "groupIndexer" /\ ~ig.dedup /\ IsSorted(ig.pre)
    /\ Len(ig.pre) >= 3
    /\ ix.elem_no = 2
    /\ \E a \in 1..Len(ix.index) : BlockCount(ix.values, ix.index[a].value) >= 2

\* C9: after groupIndexer with removeDuplicateVals on a sorted index, no block
\* holds two adjacent equal values, the count of each block is the number of
\* distinct values that its key had and the block holds exactly those values,
\* the value of each LINE of the index is the offset of the count of its block,
\* and the blocks lie in the values file in the order of the keys.
C9_GroupDedup ==
    (ig.name = "groupIndexer" /\ ig.dedup /\ IsSorted(ig.pre)) =>
        /\ OnePerKey(ix.index, ix.elem_no, ig.pre)
        /\ Len(ix.index) >= 1 => ix.index[1].value = 0
        /\ \A a \in 1..Len(ix.index) :
              LET off == ix.index[a].value
                  block == BlockValues(ix.values, off)
                  vals == Range(ValuesOf(ig.pre, ix.index[a].key))
              IN /\ BlockCount(ix.values, off) = Cardinality(vals)
                 /\ block = SortedSet(vals)
                 /\ \A b \in 1..(Len(block) - 1) : block[b] # block[b + 1]
                 /\ a < Len(ix.index) =>
                       ix.index[a + 1].value
                          = off + SizeofInt + SizeofPosT * BlockCount(ix.values, off)

\* a sorted index of two keys, the first with the same value twice, was
\* grouped with removeDuplicateVals: the first block shrank and the second
\* follows it
C9_Witness ==
    /\ ig.name = "groupIndexer" /\ ig.dedup /\ IsSorted(ig.pre)
    /\ ix.elem_no = 2
    /\ Len(ValuesOf(ig.pre, ix.index[1].key)) = 2
    /\ BlockCount(ix.values, ix.index[1].value) = 1
    /\ ix.index[2].value = SizeofInt + SizeofPosT

\* the slot that retrieveKey is to return for key
FirstEqual(index, elem_no, key) ==
    LET eq == {a \in 0..(elem_no - 1) : directCmp(key, index[a + 1].key) = 0}
    IN IF eq = {} THEN -1 ELSE CHOOSE a \in eq : \A b \in eq : a <= b

\* C10: on a sorted index (with duplicate keys or empty too) and for every
\* key, retrieveKey returns the smallest slot whose key compares equal to key,
\* or -1 when no key compares equal.
C10_ExactLookup ==
    (ig.name = "retrieveKey" /\ IsSorted(ix.index)) =>
        ig.res = FirstEqual(ix.index, ix.elem_no, ig.key)

\* retrieveKey found a key that the sorted index holds more than once, and
\* another key sorts before it
C10_Witness ==
    /\ ig.name = "retrieveKey" /\ IsSorted(ix.index)
    /\ ig.res >= 1
    /\ ix.elem_no >= ig.res + 2
    /\ ix.index[ig.res + 2].key = ig.key

\* the slot that retrieveKeyLowerBound is to return for key
FirstNotBelow(index, elem_no, key) ==
    LET ge == {a \in 0..(elem_no - 1) : directCmp(index[a + 1].key, key) >= 0}
    IN IF ge = {} THEN elem_no ELSE CHOOSE a \in ge : \A b \in ge : a <= b

\* C11: on a sorted index (with duplicate keys or empty too) and for every
\* key, retrieveKeyLowerBound returns the smallest slot whose key is >= key
\* under directCmp, and elem_no when every key is smaller.
C11_LowerBound ==
    (ig.name = "retrieveKeyLowerBound" /\ IsSorted(ix.index)) =>
        ig.res = FirstNotBelow(ix.index, ix.elem_no, ig.key)

\* retrieveKeyLowerBound was asked for a key that the sorted index does not
\* hold, with a smaller key before the slot returned and a larger key, held
\* twice, from it on
C11_Witness ==
    /\ ig.name = "retrieveKeyLowerBound" /\ IsSorted(ix.index)
    /\ ig.res = 1
    /\ ix.elem_no = 3
    /\ ix.index[1].key < ig.key
    /\ ix.index[2].key > ig.key
    /\ ix.index[3].key = ix.index[2].key

\* C12: groupIndexer on an index whose keys are not in the order of directCmp
\* is aborted: the index file and elem_no are left as they were, no values
\* file is produced and the index is not switched to grouped form.
C12_GroupRejectsUnsorted ==
    (ig.name = "groupIndexer" /\ ~IsSorted(ig.pre)) =>
        /\ ix.index = ig.pre
        /\ ix.elem_no = Len(ig.pre)
        /\ ix.values = <<>>
        /\ ~ix.grouped

\* C13: after any sequence of makeIndexer, insertIntoIndex, sortIndexer and
\* groupIndexer, elem_no is the number of LINEs in the index file, and
\* opening the file again computes the same elem_no.
C13_ElemCount ==
    /\ ix.elem_no = (Len(ix.index) * SizeofLINE) \div SizeofLINE
    /\ ix.elem_no = Len(ix.index)
    /\ ig.name = "parseIndexer" => ix.elem_no = ig.res

\* an index of three LINEs was grouped into two blocks, closed and opened
\* again
C13_Witness ==
    /\ ig.name = "parseIndexer"
    /\ ix.grouped
    /\ ix.elem_no = 2
    /\ Len(ix.values) = 2 * SizeofInt + 3 * SizeofPosT

(***************************************************************************)
(* Record formats (format.c).  A format lists the kinds of the members of  *)
(* a struct, the (list member, length member) pairs and the separator; a   *)
(* format without separator is binary.  Members are numbered from 0 as in  *)
(* the code; an object is a function from member numbers to values: an     *)
(* int for bool, Type and int members, a sequence for strings and lists    *)
(* (the empty sequence is the NULL pointer), a struct date for dates.      *)
(***************************************************************************)
\* enum FormatType (format.h); STRING is written STRING_KIND
BOOL == 0
BINARY_BOOL == 1
TYPE == 2
BINARY_TYPE == 3
INT == 4
BINARY_INT == 5
STRING_KIND == 17
STRING_NULL == 19
INTLIST == 20
BINARY_INTLIST == 21
DATE == 22
DATE_TIME == 24
BINARY_DATE_TIME == 25

\* enum Type (utils.h)
USER == 0
ORGANIZATION == 1
BOT == 2

DATE_LENGTH == 10
DATE_TIME_LENGTH == 19
BINARY_DATE_TIME_LENGTH == SizeofInt

\* stringSize(type): the bytes a member of a fixed size takes, 0 otherwise
stringSize(type) ==
    CASE type = BINARY_BOOL -> 1
      [] type = BINARY_TYPE -> 1
      [] type = BINARY_INT -> SizeofInt
      [] type = BINARY_DATE_TIME -> BINARY_DATE_TIME_LENGTH
      [] type = DATE -> DATE_LENGTH
      [] type = DATE_TIME -> DATE_TIME_LENGTH
      [] OTHER -> 0

\* elemStringSize(type): the bytes one element of a list member takes
elemStringSize(type) ==
    CASE type = BINARY_INTLIST -> SizeofInt
      [] type \in {STRING_KIND, STRING_NULL} -> 1
      [] OTHER -> 0

\* a byte of the file read as a (signed) char, and a char stored as a byte
CharOfByte(b) == IF b >= 128 THEN b - 256 ELSE b
ByteOfChar(ch) == ch % 256

\* writeIntToBinaryString(bytes, n): (n >> 24) & 0xFF, (n >> 16) & 0xFF,
\* (n >> 8) & 0xFF, n & 0xFF
writeIntToBinaryString(n) ==
    << (n \div 16777216) % 256, (n \div 65536) % 256, (n \div 256) % 256, n % 256 >>

\* readIntFromBinaryString(bytes): the four masked bytes or-ed together; the
\* masks are disjoint and bit 31 is the sign of the int
readIntFromBinaryString(bytes) ==
    CharOfByte(bytes[1]) * 16777216 + bytes[2] * 65536 + bytes[3] * 256 + bytes[4]

\* IntListToBinaryString(bytes, N, l)
RECURSIVE IntListToBinaryString(_, _)
IntListToBinaryString(N, l) ==
    IF N <= 0 THEN <<>>
    ELSE IntListToBinaryString(N - 1, l) \o writeIntToBinaryString(l[N])

\* BinaryStringTointList(bytes, N): NULL when N = 0
BinaryStringTointList(bytes, N) ==
    [i \in 1..N |-> readIntFromBinaryString(SubSeq(bytes, SizeofInt * (i - 1) + 1, SizeofInt * i))]

\* a | b on ints that are not negative
RECURSIVE BitOrNat(_, _)
BitOrNat(a, b) ==
    IF a = 0 THEN b
    ELSE IF b = 0 THEN a
    ELSE (IF a % 2 = 1 \/ b % 2 = 1 THEN 1 ELSE 0) + 2 * BitOrNat(a \div 2, b \div 2)

\* the low 31 bits of a 32-bit int
Low31(v) == IF v < 0 THEN (v + 1073741824) + 1073741824 ELSE v

\* a | b on 32-bit ints: the sign bit is set when it is set in a or in b
BitOr(a, b) ==
    IF a < 0 \/ b < 0
    THEN (BitOrNat(Low31(a), Low31(b)) - 1073741824) - 1073741824
    ELSE BitOrNat(a, b)

\* x << n on 32-bit ints: bit 30 moves into the sign bit
RECURSIVE ShiftLeft(_, _)
ShiftLeft(x, n) ==
    IF n = 0 THEN x
    ELSE IF Low31(x) >= 1073741824
         THEN ShiftLeft((2 * (Low31(x) - 1073741824) - 1073741824) - 1073741824, n - 1)
    ELSE ShiftLeft(2 * Low31(x), n - 1)

\* struct date
setDate(year, month, day, hour, minute, second) ==
    [year |-> year, month |-> month, day |-> day,
     hour |-> hour, minute |-> minute, second |-> second]

\* getCompactedDate(date): year - 2005 in 6 bits, month in 4, day in 5, hour
\* in 5, minute in 6, second in 6
getCompactedDate(date) ==
    BitOr(BitOr(BitOr(BitOr(BitOr(ShiftLeft(date.year - 2005, 26),
                                  ShiftLeft(date.month, 22)),
                            ShiftLeft(date.day, 17)),
                      ShiftLeft(date.hour, 12)),
                ShiftLeft(date.minute, 6)),
          date.second)

\* getUncompactedDate with the hour cut to 4 bits
getUncompactedDateHour4(c) ==
    setDate(2005 + ((c \div 67108864) % 64), (c \div 4194304) % 16,
            (c \div 131072) % 32, (c \div 4096) % 16, (c \div 64) % 64, c % 64)

\* getUncompactedDate(c)
getUncompactedDate(c) ==
    setDate(2005 + ((c \div 67108864) % 64), (c \div 4194304) % 16,
            (c \div 131072) % 32, (c \div 4096) % 32, (c \div 64) % 64, c % 64)

\* readBinaryMember(type, str, str_len, dest): the value stored in dest
readBinaryMember(type, str, str_len) ==
    CASE type = BINARY_BOOL -> IF CharOfByte(str[1]) # 0 THEN 1 ELSE 0
      [] type = BINARY_TYPE -> CharOfByte(str[1])
      [] type = BINARY_INT -> readIntFromBinaryString(str)
      [] type \in {STRING_KIND, STRING_NULL} -> SubSeq(str, 1, str_len)
      [] type = BINARY_INTLIST -> BinaryStringTointList(str, str_len \div SizeofInt)
      [] type = BINARY_DATE_TIME -> getUncompactedDate(readIntFromBinaryString(str))

\* writeBinaryMember(type, src, dest, dest_len): the bytes of dest afterwards;
\* dest is the buffer of the caller as it was allocated.  The BINARY_INT case
\* is writeIntToBinaryString(dest, *(int* )dest): it encodes the int that the
\* first four bytes of dest hold (read in the byte order of the machine,
\* least significant byte first), not the member
writeBinaryMember(type, src, dest, dest_len) ==
    CASE type = BINARY_BOOL -> <<ByteOfChar(src)>>
      [] type = BINARY_TYPE -> <<ByteOfChar(src)>>
      [] type = BINARY_INT ->
            writeIntToBinaryString(
                readIntFromBinaryString(<<dest[4], dest[3], dest[2], dest[1]>>))
      [] type \in {STRING_KIND, STRING_NULL} ->
            IF src # <<>> THEN SubSeq(src, 1, dest_len) ELSE dest
      [] type = BINARY_INTLIST -> IntListToBinaryString(dest_len \div SizeofInt, src)
      [] type = BINARY_DATE_TIME -> writeIntToBinaryString(getCompactedDate(src))

\* characters are their codes; a string is a sequence of them
Ascii ==
    (" " :> 32) @@ ("," :> 44) @@ ("-" :> 45) @@ ("0" :> 48) @@ ("1" :> 49) @@
    ("2" :> 50) @@ ("3" :> 51) @@ ("4" :> 52) @@ ("5" :> 53) @@ ("6" :> 54) @@
    ("7" :> 55) @@ ("8" :> 56) @@ ("9" :> 57) @@ (":" :> 58) @@ (";" :> 59) @@
    ("B" :> 66) @@ ("F" :> 70) @@ ("O" :> 79) @@ ("T" :> 84) @@ ("U" :> 85) @@
    ("[" :> 91) @@ ("]" :> 93) @@ ("a" :> 97) @@ ("b" :> 98) @@ ("c" :> 99) @@
    ("e" :> 101) @@
    ("g" :> 103) @@ ("i" :> 105) @@ ("l" :> 108) @@ ("n" :> 110) @@
    ("o" :> 111) @@ ("r" :> 114) @@ ("s" :> 115) @@ ("t" :> 116) @@
    ("u" :> 117) @@ ("z" :> 122)
Str(s) == [i \in 1..Len(s) |-> Ascii[s[i]]]
IsDigit(ch) == ch >= Ascii["0"] /\ ch <= Ascii["9"]

\* fprintf(dest, "%d", n)
RECURSIVE Digits(_)
Digits(n) ==
    IF n < 10 THEN <<Ascii["0"] + n>> ELSE Digits(n \div 10) \o <<Ascii["0"] + (n % 10)>>
PrintInt(n) == IF n < 0 THEN <<Ascii["-"]>> \o Digits(0 - n) ELSE Digits(n)

\* atoi(str) on a string that is terminated after its last character: skips
\* blanks, takes a sign and the digits that follow
RECURSIVE AtoiDigits(_, _)
AtoiDigits(str, acc) ==
    IF str = <<>> \/ ~IsDigit(Head(str)) THEN acc
    ELSE AtoiDigits(Tail(str), 10 * acc + (Head(str) - Ascii["0"]))
RECURSIVE atoi(_)
atoi(str) ==
    IF str = <<>> THEN 0
    ELSE IF Head(str) = Ascii[" "] THEN atoi(Tail(str))
    ELSE IF Head(str) = Ascii["-"] THEN 0 - AtoiDigits(Tail(str), 0)
    ELSE AtoiDigits(str, 0)

\* printType(a)
printType(a) ==
    IF a = USER THEN Str(<<"U", "s", "e", "r">>)
    ELSE IF a = ORGANIZATION
         THEN Str(<<"O", "r", "g", "a", "n", "i", "z", "a", "t", "i", "o", "n">>)
         ELSE Str(<<"B", "o", "t">>)

\* printAr(a, f, n): "[" then the elements separated by ", " then "]"
RECURSIVE printArElems(_, _, _)
printArElems(a, i, n) ==
    IF i < n - 1
    THEN PrintInt(a[i + 1]) \o Str(<<",", " ">>) \o printArElems(a, i + 1, n)
    ELSE IF i < n THEN PrintInt(a[i + 1]) ELSE <<>>
printAr(a, n) == Str(<<"[">>) \o printArElems(a, 0, n) \o Str(<<"]">>)

\* printDate(date, out): the year with %d, the others with a 0 before a
\* value under 10
Print2(n) == IF n < 10 THEN <<Ascii["0"]>> \o PrintInt(n) ELSE PrintInt(n)
printDate(date) ==
    PrintInt(date.year) \o Str(<<"-">>) \o Print2(date.month) \o Str(<<"-">>)
    \o Print2(date.day) \o Str(<<" ">>) \o Print2(date.hour) \o Str(<<":">>)
    \o Print2(date.minute) \o Str(<<":">>) \o Print2(date.second)

\* struct pair: the member of a list and the address its length is kept at
PAIR(list_member, length_address) ==
    [list_member |-> list_member, length_address |-> length_address]

\* makeFormat(sample, params, types, params_length, size, lists, lists_no,
\* separator): an address of the sample struct is the number of its field;
\* displacements[m + 1] is the field of member m, types[m + 1] its kind, and
\* pair k keeps the member of the list, the field of its length and the
\* member that field is (-1 if it is no member of this format)
makeFormat(params, types, lists, separator) ==
    [members |-> Len(types), types |-> types, displacements |-> params,
     lists |-> [k \in 1..Len(lists) |->
                  [list_member |-> lists[k].list_member,
                   length_displacement |-> lists[k].length_address,
                   length_member |->
                      LET js == {j \in 1..Len(params) : params[j] = lists[k].length_address}
                      IN IF js = {} THEN -1
                         ELSE (CHOOSE j \in js : \A j2 \in js : j <= j2) - 1]],
     lists_no |-> Len(lists), separator |-> separator]
isBinary(f) == f.separator = 0
getFormatMembers(format) == format.members
getMemberType(format, member) == format.types[member + 1]
\* getMember(format, obj, member_index): the field of obj the member is
getMember(format, obj, member_index) == obj[format.displacements[member_index + 1]]
getListPairListMember(format, pair_index) == format.lists[pair_index + 1].list_member
getListPairLengthMember(format, pair_index) == format.lists[pair_index + 1].length_member

\* checkBinarySpecs(format): every member without a fixed size is the next
\* pair's list, has an element size and a length member that is no later
RECURSIVE checkBinarySpecsFrom(_, _, _)
checkBinarySpecsFrom(format, i, list_index) ==
    IF i >= format.members THEN TRUE
    ELSE IF stringSize(getMemberType(format, i)) # 0
         THEN checkBinarySpecsFrom(format, i + 1, list_index)
    ELSE /\ list_index < format.lists_no
         /\ getListPairListMember(format, list_index) = i
         /\ elemStringSize(getMemberType(format, i)) # 0
         /\ getListPairLengthMember(format, list_index) # -1
         /\ getListPairLengthMember(format, list_index) <= i
         /\ checkBinarySpecsFrom(format, i + 1, list_index + 1)
checkBinarySpecs(format) == checkBinarySpecsFrom(format, 0, 0)

\* the length printFormat takes for the list of pair k: the int at
\* src + length_displacement
ListSize(f, src, k) == src[f.lists[k + 1].length_displacement]
\* aux_list_sizes[i] of printFormat for member i: set from the pairs, and
\* indeterminate for a member that is the list of no pair
AuxListSize(f, src, i) ==
    LET ks == {k \in 0..(f.lists_no - 1) : getListPairListMember(f, k) = i}
    IN IF ks = {} THEN Junk ELSE ListSize(f, src, CHOOSE k \in ks : TRUE)

\* printFormat(f, src, dest): the bytes written for member i
printMember(f, src, i) ==
    LET t == getMemberType(f, i)
        v == getMember(f, src, i)
    IN CASE t = INT -> PrintInt(v)
         [] t \in {STRING_KIND, STRING_NULL} -> v
         [] t = INTLIST -> printAr(v, AuxListSize(f, src, i))
         [] t = TYPE -> printType(v)
         [] t \in {DATE, DATE_TIME} -> printDate(v)
         [] t = BOOL -> IF v # 0 THEN Str(<<"T", "r", "u", "e">>)
                        ELSE Str(<<"F", "a", "l", "s", "e">>)
         [] t = BINARY_BOOL -> <<ByteOfChar(v)>>
         [] t = BINARY_TYPE -> <<ByteOfChar(v)>>
         [] t = BINARY_INT -> writeIntToBinaryString(v)
         [] t = BINARY_INTLIST -> IntListToBinaryString(AuxListSize(f, src, i), v)
         [] t = BINARY_DATE_TIME -> writeIntToBinaryString(getCompactedDate(v))

\* printFormat(f, src, dest): the members in order, the separator between
\* them when there is one
RECURSIVE printFormatFrom(_, _, _)
printFormatFrom(f, src, i) ==
    IF i >= f.members THEN <<>>
    ELSE printMember(f, src, i)
         \o (IF i # f.members - 1 /\ f.separator # 0 THEN <<f.separator>> ELSE <<>>)
         \o printFormatFrom(f, src, i + 1)
printFormat(f, src) == printFormatFrom(f, src, 0)

(***************************************************************************)
(* struct lazy (lazy.c).  The operations thread a record ls = [st, l]: st  *)
(* is the state of the cache and the disk (see getStr) and l the struct    *)
(* lazy, with the object it wraps in l.obj.                                *)
(***************************************************************************)
\* what a member of an object holds before it is loaded: the object is
\* assumed to be empty
EmptyMember(type) ==
    CASE type \in {STRING_KIND, STRING_NULL, INTLIST, BINARY_INTLIST} -> <<>>
      [] type \in {DATE, DATE_TIME, BINARY_DATE_TIME} -> setDate(0, 0, 0, 0, 0, 0)
      [] OTHER -> 0
EmptyObj(format) ==
    [d \in {format.displacements[m] : m \in 1..format.members} |->
        EmptyMember(format.types[CHOOSE m \in 1..format.members :
                                    format.displacements[m] = d])]

\* makeLazy(file, pos, format, obj): string_pos is allocated with malloc and
\* only string_pos[0] is set
makeLazy(file, pos, format, obj) ==
    [ file |-> file, pos |-> pos, format |-> format, obj |-> obj,
      loaded |-> [m \in 0..(format.members - 1) |-> FALSE],
      altered |-> [m \in 0..(format.members - 1) |-> FALSE],
      string_pos |-> [i \in 0..format.members |-> IF i = 0 THEN pos ELSE Junk],
      string_pos_it |-> 0,
      list_index |-> 0 ]

RECURSIVE loadStringPos(_, _)
RECURSIVE getLazyMember(_, _)

\* loadStringPos, the end of one turn of its loop: the size of the member
\* is added to the position of the member
loadStringPosAdd(b, it, pos) ==
    loadStringPos([b EXCEPT !.l.string_pos[it] = @ + b.l.string_pos[it - 1]], pos)

\* loadStringPosSize taking the number of elements for the number of bytes
loadStringPosSizeNoElem(g, it, length_member) ==
    [g EXCEPT !.l.string_pos[it] = getMember(g.l.format, g.l.obj, length_member)]

\* loadStringPos, a member without fixed size: after getLazyMember returned
\* g, the value of the length member times the size of an element
loadStringPosSize(g, it, length_member) ==
    [g EXCEPT !.l.string_pos[it] =
        getMember(g.l.format, g.l.obj, length_member)
        * elemStringSize(getMemberType(g.l.format, it - 1))]

\* loadStringPos, a member without fixed size: the length member of the
\* pair l->list_index++ is fetched
loadStringPosList(a, it) ==
    loadStringPosSize(
        getLazyMember([a EXCEPT !.l.list_index = @ + 1],
                      getListPairLengthMember(a.l.format, a.l.list_index)),
        it, getListPairLengthMember(a.l.format, a.l.list_index))

\* loadStringPos, one turn of its loop for the member it - 1
loadStringPosStep(a, it, pos) ==
    loadStringPosAdd(
        IF a.l.string_pos[it] = 0 THEN loadStringPosList(a, it) ELSE a, it, pos)

\* loadStringPos(l, pos, c)
loadStringPos(ls, pos) ==
    IF ls.l.string_pos_it >= pos THEN ls
    ELSE loadStringPosStep(
            [ls EXCEPT !.l.string_pos_it = @ + 1,
                       !.l.string_pos[ls.l.string_pos_it + 1] =
                           stringSize(getMemberType(ls.l.format, ls.l.string_pos_it))],
            ls.l.string_pos_it + 1, pos)

\* getLazyMember after getStr returned r: readBinaryMember into the object
getLazyMemberStore(a, r, member, length) ==
    [a EXCEPT !.st = r,
              !.l.obj[a.l.format.displacements[member + 1]] =
                  readBinaryMember(getMemberType(a.l.format, member), r.buf, length),
              !.l.loaded[member] = TRUE]

\* getLazyMember after loadStringPos returned a: the bytes between the
\* position of the member and the position of the next
getLazyMemberRead(a, member, length) ==
    getLazyMemberStore(a, getStr(a.st, a.l.file, a.l.string_pos[member], length),
                       member, length)

getLazyMemberLength(a, member) ==
    getLazyMemberRead(a, member, a.l.string_pos[member + 1] - a.l.string_pos[member])

\* getLazyMember(l, member, c): the member is in l.obj afterwards
getLazyMember(ls, member) ==
    IF ls.l.loaded[member] THEN ls
    ELSE getLazyMemberLength(loadStringPos(ls, member + 1), member)

\* setLazyMember(l, member) and the store the caller makes through the
\* pointer it returns
setLazyMember(ls, member, value) ==
    [ls EXCEPT !.l.loaded[member] = TRUE,
               !.l.altered[member] = TRUE,
               !.l.obj[ls.l.format.displacements[member + 1]] = value]

\* getPosOfLazyMember(l, member, c): the position is l.string_pos[member]
getPosOfLazyMember(ls, member) == loadStringPos(ls, member)

\* getPosAfterLazy(l, c)
getPosAfterLazy(ls) == getPosOfLazyMember(ls, getFormatMembers(ls.l.format))

\* setLazyAddress(l, file, pos)
setLazyAddress(ls, file, pos) ==
    [ls EXCEPT !.l.loaded = [m \in DOMAIN @ |-> FALSE],
               !.l.altered = [m \in DOMAIN @ |-> FALSE],
               !.l.file = file,
               !.l.pos = pos,
               !.l.string_pos[0] = pos,
               !.l.string_pos_it = 0,
               !.l.list_index = 0]

\* printLazyToFile, an altered member i of length bytes: writeBinaryMember
\* into the buffer (stack is what the buffer holds when it is allocated) and
\* setStr at l.string_pos[i]
printLazyMember(a, i, length, stack) ==
    [a EXCEPT !.st =
        setStr(a.st, a.l.file, a.l.string_pos[i],
               writeBinaryMember(getMemberType(a.l.format, i),
                                 getMember(a.l.format, a.l.obj, i),
                                 [k \in 1..length |-> stack], length))]

\* printLazyToFile, the pair of the list member i: list_index starts at -1
\* and lists[-1] is the memory before the array, taken here to hold a
\* member number under i
RECURSIVE PairOfList(_, _, _)
PairOfList(format, list_index, i) ==
    IF list_index >= 0 /\ getListPairListMember(format, list_index) >= i
    THEN list_index
    ELSE PairOfList(format, list_index + 1, i)

\* printLazyToFile, a member without fixed size: its length is the value of
\* the length member, fetched with getLazyMember, times the element size
printLazyList(g, i, length_member, stack) ==
    printLazyMember(g, i,
        getMember(g.l.format, g.l.obj, length_member)
        * elemStringSize(getMemberType(g.l.format, i)), stack)

\* printLazyToFile(l, c): every altered member is written at its position
RECURSIVE printLazyToFileFrom(_, _, _)
printLazyToFileFrom(ls, i, stack) ==
    IF i >= getFormatMembers(ls.l.format) THEN ls
    ELSE IF ~ls.l.altered[i] THEN printLazyToFileFrom(ls, i + 1, stack)
    ELSE printLazyToFileFrom(
            IF stringSize(getMemberType(ls.l.format, i)) # 0
            THEN printLazyMember(ls, i, stringSize(getMemberType(ls.l.format, i)), stack)
            ELSE printLazyList(
                    getLazyMember(ls, getListPairLengthMember(ls.l.format,
                                          PairOfList(ls.l.format, -1, i))),
                    i, getListPairLengthMember(ls.l.format,
                                               PairOfList(ls.l.format, -1, i)), stack),
            i + 1, stack)
printLazyToFile(ls, stack) == printLazyToFileFrom(ls, 0, stack)

(***************************************************************************)
(* A Lazy over a record of a binary file: the caller asks for members and  *)
(* positions in any order, sets a member whose position it knows, prints   *)
(* the Lazy, flushes the cache and points the Lazy at the record again.    *)
(***************************************************************************)
\* the lengths of the lists and strings of the records
ListLens == {0, 1, 2}

\* the members author_id, author_friend, commit_at, message_len and message
\* of getCompressedCommitFormat
CommitLikeFormat ==
    makeFormat(<<0, 1, 2, 3, 4>>,
               <<BINARY_INT, BINARY_BOOL, BINARY_DATE_TIME, BINARY_INT, STRING_NULL>>,
               <<PAIR(4, 3)>>, 0)
\* the members login_len, type, friends, friends_list and login of
\* getCompressedUserFormat
UserLikeFormat ==
    makeFormat(<<0, 1, 2, 3, 4>>,
               <<BINARY_INT, BINARY_TYPE, BINARY_INT, BINARY_INTLIST, STRING_KIND>>,
               <<PAIR(3, 2), PAIR(4, 0)>>, 0)
LazyFormats == {CommitLikeFormat, UserLikeFormat}

\* the values of the members of the records, in two variants
IntVal(v) == IF v = 1 THEN -2 ELSE 258
DateVal(v) == IF v = 1 THEN setDate(2015, 6, 1, 0, 0, 0)
              ELSE setDate(2010, 12, 31, 23, 59, 59)
TypeVal(v) == IF v = 1 THEN USER ELSE BOT
ListVal(v, n) == [k \in 1..n |-> IntVal(1 + ((k + v) % 2))]
StringVal(v, n) == [k \in 1..n |-> Ascii["a"] + ((k + v) % 2)]
Variants == {1, 2}
\* the variant of the record with lists of n elements
VariantOf(n) == 1 + (n % 2)

LazyRecords(format) ==
    IF format = CommitLikeFormat
    THEN { (0 :> IntVal(VariantOf(n))) @@ (1 :> VariantOf(n) - 1)
           @@ (2 :> DateVal(VariantOf(n))) @@ (3 :> n)
           @@ (4 :> StringVal(VariantOf(n), n)) : n \in ListLens }
    ELSE { (0 :> n) @@ (1 :> TypeVal(VariantOf(n + k))) @@ (2 :> k)
           @@ (3 :> ListVal(VariantOf(n), k)) @@ (4 :> StringVal(VariantOf(k), n)) :
           n \in ListLens, k \in ListLens }

\* the values the caller stores in a member of the kind type
SetVals(type) ==
    CASE type = BINARY_BOOL -> {0, 1}
      [] type = BINARY_TYPE -> {TypeVal(v) : v \in Variants}
      [] type = BINARY_INT -> {IntVal(v) : v \in Variants}
      [] type = BINARY_DATE_TIME -> {DateVal(v) : v \in Variants}
      [] OTHER -> {}

\* the bytes of the binary file: base bytes, the record as printFormat wrote
\* it, and one more byte
RecordFile(format, rec, base) ==
    [i \in 1..base |-> InitByte(DataFile, i - 1)] \o printFormat(format, rec)
    \o <<InitByte(DataFile, base)>>

\* the members that hold the length of a list
LengthMembers(format) ==
    {getListPairLengthMember(format, k) : k \in 0..(format.lists_no - 1)}

\* a byte of a buffer on the stack before it is written
StackBytes == {0, 255}

\* the history kept beside the Lazy:
\*   rec      the record printFormat wrote at base
\*   phase    how far the caller is in setting a member and reading it back
\*   member   the member that was set, the number of members if none
\*   value    the value it was set to
LazyInit(format, rec, base) ==
    [ l |-> makeLazy(DataFile, base, format, EmptyObj(format)),
      rec |-> rec, base |-> base, phase |-> "read", member |-> format.members, value |-> 0 ]

LazySt == [st |-> St, l |-> lz.l]

\* the history of the cache is not kept here
LazyCommit(ls, phase) ==
    /\ cache' = ls.st.c
    /\ disk' = ls.st.disk
    /\ lz' = [lz EXCEPT !.l = ls.l, !.phase = phase]

GetLazyMember(member) ==
    LazyCommit(getLazyMember(LazySt, member), lz.phase)

GetPosOfLazyMember(member) ==
    LazyCommit(getPosOfLazyMember(LazySt, member), lz.phase)

GetPosAfterLazy ==
    LazyCommit(getPosAfterLazy(LazySt), lz.phase)

SetLazyAddress ==
    LazyCommit(setLazyAddress(LazySt, lz.l.file, lz.base), lz.phase)

\* the record starts at an odd position of the file, so that its ints lie
\* across cache lines
LazyBase == 1

InitLazy ==
    /\ \E line_num \in 1..MaxLines, alt0 \in BOOLEAN :
          /\ cache = getCache(line_num, alt0)
          /\ ghost = GhostInit(line_num)
    /\ \E format \in LazyFormats :
       \E rec \in LazyRecords(format) :
          /\ disk = [InitDisk(NumPages) EXCEPT
                       ![DataFile] = RecordFile(format, rec, LazyBase)]
          /\ lz = LazyInit(format, rec, LazyBase)
    /\ ret = <<>>
    /\ op = NoOp
    /\ nops = 0
    /\ hist = <<>>
    /\ th = [t \in Threads |-> Idle]
    /\ ix = makeIndexer
    /\ ig = IdxGhostInit
    /\ fm = NULL
    /\ user = NULL
    /\ OthersInit

NextLazy ==
    /\ UNCHANGED <<ghost, ret, op, nops, hist, th, ix, ig, fm, user, others>>
    /\ \/ \E member \in 0..(lz.l.format.members - 1) : GetLazyMember(member)
       \/ \E member \in 0..(lz.l.format.members - 1) : GetPosOfLazyMember(member)
       \/ GetPosAfterLazy
       \/ SetLazyAddress

SpecLazy == InitLazy /\ [][NextLazy]_vars

(***************************************************************************)
(* Properties of the Lazy.                                                 *)
(***************************************************************************)
\* the bytes a field of fixed size takes in a binary record: a bool and a
\* kind take one, an int and a packed timestamp four
FieldWidth(type) ==
    CASE type \in {BINARY_BOOL, BINARY_TYPE} -> 1
      [] type \in {BINARY_INT, BINARY_DATE_TIME} -> 4
      [] OTHER -> 0
\* the bytes of one element of a field of variable length
ElemWidth(type) == IF type = BINARY_INTLIST THEN 4 ELSE 1
\* the value of the length field paired with the list member m
PairedLength(format, rec, m) ==
    rec[(CHOOSE p \in Range(format.lists) : p.list_member = m).length_displacement]
\* the size of field m of the record rec
FieldSize(format, rec, m) ==
    IF FieldWidth(getMemberType(format, m)) # 0
    THEN FieldWidth(getMemberType(format, m))
    ELSE PairedLength(format, rec, m) * ElemWidth(getMemberType(format, m))

\* C14: in every state of a Lazy over a binary record, whatever the order
\* of the requests, offset[0] is the base offset, every computed entry is
\* offset[i+1] = offset[i] + size(field i), with the fixed width of the kind
\* or the value of the paired length field times the element width, and once
\* the offset after the record is computed, it is the base offset plus the
\* number of bytes printFormat wrote for the record
C14_LazyOffsets ==
    /\ lz.l.string_pos[0] = lz.base
    /\ \A i \in 0..(lz.l.string_pos_it - 1) :
          lz.l.string_pos[i + 1] =
              lz.l.string_pos[i] + FieldSize(lz.l.format, lz.rec, i)
    /\ lz.l.string_pos_it = getFormatMembers(lz.l.format) =>
          lz.l.string_pos[getFormatMembers(lz.l.format)] - lz.base
              = Len(printFormat(lz.l.format, lz.rec))

\* the offset after a record with two lists that are not empty is computed,
\* the last member having been fetched and the list in front of it not
C14_Witness ==
    /\ lz.l.format = UserLikeFormat
    /\ lz.rec[0] = 2 /\ lz.rec[2] = 2
    /\ lz.l.loaded[4] /\ ~lz.l.loaded[3]
    /\ lz.l.string_pos_it = getFormatMembers(lz.l.format)

(***************************************************************************)
(* Writing a member back: the caller fetches the members in front of a     *)
(* member, sets it, prints the Lazy, flushes the cache, points the Lazy at *)
(* the record again and fetches members in any order.                      *)
(***************************************************************************)
\* the callers set a member of fixed size that is the length of no list and
\* whose position they know, having read the members before it
SetLazyMember(member, value) ==
    /\ lz.l.string_pos_it >= member
    /\ member \notin LengthMembers(lz.l.format)
    /\ lz' = [lz EXCEPT !.l = setLazyMember(LazySt, member, value).l,
                        !.phase = "set", !.member = member, !.value = value]
    /\ UNCHANGED <<cache, disk>>

PrintLazyToFile(stack) ==
    LazyCommit(printLazyToFile(LazySt, stack), "printed")

LazyFlushCache ==
    /\ cache' = flushCache(St).c
    /\ disk' = flushCache(St).disk
    /\ lz' = [lz EXCEPT !.phase = "flushed"]

Retarget ==
    LazyCommit(setLazyAddress(LazySt, lz.l.file, lz.base), "retargeted")

\* the members the caller has fetched
Loaded(l) == {m \in DOMAIN l.loaded : l.loaded[m]}

NextLazyWrite ==
    /\ UNCHANGED <<ghost, ret, op, nops, hist, th, ix, ig, fm, user, others>>
    /\ \/ /\ lz.phase = "read"
          /\ \E member \in 0..(lz.l.format.members - 1) :
                /\ member = Cardinality(Loaded(lz.l))
                /\ GetLazyMember(member)
       \/ /\ lz.phase = "read"
          /\ \E member \in 0..(lz.l.format.members - 1) :
             \E value \in SetVals(getMemberType(lz.l.format, member)) :
                SetLazyMember(member, value)
       \/ /\ lz.phase = "set"
          /\ \E stack \in StackBytes : PrintLazyToFile(stack)
       \/ /\ lz.phase = "printed"
          /\ LazyFlushCache
       \/ /\ lz.phase = "flushed"
          /\ Retarget
       \/ /\ lz.phase = "retargeted"
          /\ \E member \in 0..(lz.l.format.members - 1) : GetLazyMember(member)

SpecLazyWrite == InitLazy /\ [][NextLazyWrite]_vars

\* C15: after the fields before a fixed-width field i were fetched, i was
\* set to v, the Lazy printed, the cache flushed and the Lazy pointed at the
\* same (file, offset) again, every fetch of i yields v and every fetch of
\* another field yields the value it had in the record
C15_WriteBackRoundTrip ==
    lz.phase = "retargeted" =>
        \A m \in Loaded(lz.l) :
            getMember(lz.l.format, lz.l.obj, m)
                = IF m = lz.member THEN lz.value ELSE lz.rec[m]

(***************************************************************************)
(* Reading text (utils.c, date.c).  A token is the sequence of characters  *)
(* strsep cut out of the line; it is terminated after its last character.  *)
(***************************************************************************)
\* the characters of str in front of the first separator
RECURSIVE TokenOf(_, _)
TokenOf(str, separator) ==
    IF str = <<>> \/ Head(str) = separator THEN <<>>
    ELSE <<Head(str)>> \o TokenOf(Tail(str), separator)

\* strsep(&str, separators): the token, and what str points at afterwards
\* (null: no separator was found)
strsep(str, separator) ==
    [ temp |-> TokenOf(str, separator),
      null |-> Len(TokenOf(str, separator)) = Len(str),
      str |-> SubSeq(str, Len(TokenOf(str, separator)) + 2, Len(str)) ]

\* checkInt(str, length)
checkInt(str, length) ==
    /\ length # 0
    /\ \A k \in 1..length : IsDigit(str[k])

\* safeStringToInt(str, length, i): [ok, i]; i is not written on failure
safeStringToInt(str, length, i) ==
    IF ~checkInt(str, length) THEN [ok |-> FALSE, i |-> i]
    ELSE [ok |-> TRUE, i |-> atoi(SubSeq(str, 1, length))]

\* checkType(str, length, t): [ok, t]
checkType(str, length, t) ==
    IF length = 3 /\ str = printType(BOT) THEN [ok |-> TRUE, t |-> BOT]
    ELSE IF length = 4 /\ str = printType(USER) THEN [ok |-> TRUE, t |-> USER]
    ELSE IF length = 12 /\ str = printType(ORGANIZATION)
         THEN [ok |-> TRUE, t |-> ORGANIZATION]
    ELSE [ok |-> FALSE, t |-> t]

\* checkBool(str, length, dest): [ok, dest]
checkBool(str, length, dest) ==
    IF length = 4 /\ str = Str(<<"T", "r", "u", "e">>) THEN [ok |-> TRUE, dest |-> 1]
    ELSE IF length = 5 /\ str = Str(<<"F", "a", "l", "s", "e">>)
         THEN [ok |-> TRUE, dest |-> 0]
    ELSE [ok |-> FALSE, dest |-> dest]

\* checkIdList, its loop from str[i] on: [ok, list_size, first_digit]
RECURSIVE checkIdListFrom(_, _, _, _, _)
checkIdListFrom(str, length, i, list_size, first_digit) ==
    IF i >= length - 1
    THEN [ok |-> TRUE, list_size |-> list_size, first_digit |-> first_digit]
    ELSE IF IsDigit(str[i + 1])
         THEN checkIdListFrom(str, length, i + 1,
                              IF first_digit THEN list_size + 1 ELSE list_size, FALSE)
    ELSE IF first_digit \/ str[i + 1] # Ascii[","]
         THEN [ok |-> FALSE, list_size |-> list_size, first_digit |-> first_digit]
    ELSE IF i + 2 > Len(str) \/ str[i + 2] # Ascii[" "]
         THEN [ok |-> FALSE, list_size |-> list_size, first_digit |-> first_digit]
    ELSE checkIdListFrom(str, length, i + 2, list_size, TRUE)

\* checkIdList(str, length, list_size): [ok, list_size]; list_size is what
\* the caller passed when the brackets are missing
checkIdList(str, length, list_size) ==
    IF length < 2 THEN [ok |-> FALSE, list_size |-> list_size]
    ELSE IF str[1] # Ascii["["] \/ str[length] # Ascii["]"]
         THEN [ok |-> FALSE, list_size |-> list_size]
    ELSE [ok |-> /\ checkIdListFrom(str, length, 1, 0, TRUE).ok
                 /\ (length = 2 \/ ~checkIdListFrom(str, length, 1, 0, TRUE).first_digit),
          list_size |-> checkIdListFrom(str, length, 1, 0, TRUE).list_size]

\* readIdList, its loop: str++, strsep(&str, ","), atoi
RECURSIVE readIdListFrom(_)
readIdListFrom(str) ==
    <<atoi(strsep(Tail(str), Ascii[","]).temp)>>
    \o (IF strsep(Tail(str), Ascii[","]).null THEN <<>>
        ELSE readIdListFrom(strsep(Tail(str), Ascii[","]).str))

\* readIdList(str, length, list, list_size): [ok, list, list_size]
readIdList(str, length, list, list_size) ==
    IF ~checkIdList(str, length, list_size).ok
    THEN [ok |-> FALSE, list |-> list,
          list_size |-> checkIdList(str, length, list_size).list_size]
    ELSE IF checkIdList(str, length, list_size).list_size = 0
         THEN [ok |-> TRUE, list |-> <<>>, list_size |-> 0]
    ELSE [ok |-> TRUE,
          list |-> readIdListFrom(str),
          list_size |-> checkIdList(str, length, list_size).list_size]

\* isLeapYear(year)
isLeapYear(year) == (year % 4 = 0 /\ year % 100 # 0) \/ year % 400 = 0

\* dateCompare(d1, d2): -1, 0 or 1 by the first member that differs
dateCompare(d1, d2) ==
    LET cmp(a, b) == IF a < b THEN -1 ELSE 1
    IN IF d1.year # d2.year THEN cmp(d1.year, d2.year)
       ELSE IF d1.month # d2.month THEN cmp(d1.month, d2.month)
       ELSE IF d1.day # d2.day THEN cmp(d1.day, d2.day)
       ELSE IF d1.hour # d2.hour THEN cmp(d1.hour, d2.hour)
       ELSE IF d1.minute # d2.minute THEN cmp(d1.minute, d2.minute)
       ELSE IF d1.second # d2.second THEN cmp(d1.second, d2.second)
       ELSE 0

\* the date setToCurrentDate yields when the program runs
CurrentDate == setDate(2022, 1, 31, 12, 0, 0)
\* the date isDateValid takes for the lower bound
MinimumDate == setDate(2005, 4, 6, 23, 59, 59)

\* monthsLength[month - 1] of isDateValid; outside the array the int that
\* the stack holds there
monthsLength(year, month, outside) ==
    IF month < 1 \/ month > 12 THEN outside
    ELSE IF month = 2 THEN (IF isLeapYear(year) THEN 29 ELSE 28)
    ELSE IF month \in {4, 6, 9, 11} THEN 30 ELSE 31

\* isDateValid(date): the test of the month is month < 1 && month > 12,
\* which no month meets
isDateValid(date, outside) ==
    /\ ~(date.hour < 0 \/ date.hour > 23)
    /\ ~(date.minute < 0 \/ date.minute > 59)
    /\ ~(date.second < 0 \/ date.second > 59)
    /\ ~(date.month < 1 /\ date.month > 12)
    /\ ~(date.day < 1 \/ date.day > monthsLength(date.year, date.month, outside))
    /\ dateCompare(MinimumDate, date) = -1
    /\ dateCompare(date, CurrentDate) = -1

\* the int safeStringToInt stores for the two or four digits at str[from]
DateField(str, from, n) == safeStringToInt(SubSeq(str, from + 1, from + n), n, 0)

\* readDate(str, length, date, time): [ok, date]; when the hour, the minute
\* or the second is no number the time is set to midnight
readDate(str, length, date, time, outside) ==
    IF length # (IF time THEN 19 ELSE 10) THEN [ok |-> FALSE, date |-> date]
    ELSE IF \/ str[5] # Ascii["-"] \/ str[8] # Ascii["-"]
            \/ (time /\ str[11] # Ascii[" "])
            \/ (time /\ str[14] # Ascii[":"])
            \/ (time /\ str[17] # Ascii[":"])
         THEN [ok |-> FALSE, date |-> date]
    ELSE IF ~(/\ DateField(str, 0, 4).ok /\ DateField(str, 5, 2).ok
              /\ DateField(str, 8, 2).ok)
         THEN [ok |-> FALSE, date |-> date]
    ELSE LET d == IF /\ time /\ DateField(str, 11, 2).ok
                     /\ DateField(str, 14, 2).ok /\ DateField(str, 17, 2).ok
                  THEN setDate(DateField(str, 0, 4).i, DateField(str, 5, 2).i,
                               DateField(str, 8, 2).i, DateField(str, 11, 2).i,
                               DateField(str, 14, 2).i, DateField(str, 17, 2).i)
                  ELSE setDate(DateField(str, 0, 4).i, DateField(str, 5, 2).i,
                               DateField(str, 8, 2).i, 0, 0, 0)
         IN IF isDateValid(d, outside) THEN [ok |-> TRUE, date |-> d]
            ELSE [ok |-> FALSE, date |-> date]

\* checkDate(str, length): a date with its time, 19 characters
checkDate(str, length, outside) ==
    /\ length = 19
    /\ ~(\/ str[5] # Ascii["-"] \/ str[8] # Ascii["-"] \/ str[11] # Ascii[" "]
         \/ str[14] # Ascii[":"] \/ str[17] # Ascii[":"])
    /\ DateField(str, 0, 4).ok /\ DateField(str, 5, 2).ok /\ DateField(str, 8, 2).ok
    /\ DateField(str, 11, 2).ok /\ DateField(str, 14, 2).ok
    /\ DateField(str, 17, 2).ok
    /\ isDateValid(setDate(DateField(str, 0, 4).i, DateField(str, 5, 2).i,
                           DateField(str, 8, 2).i, DateField(str, 11, 2).i,
                           DateField(str, 14, 2).i, DateField(str, 17, 2).i), outside)

(***************************************************************************)
(* readFormat and checkFormat (format.c).  The loop of readFormat threads  *)
(* a record r = [str, null, dest, aux, list_index]: what is left of the    *)
(* line (null: str is NULL), the destination object, aux_list_sizes and    *)
(* list_index.  The result is [ok, dest, freed]: freed lists the members   *)
(* partialFree freed, in order.                                            *)
(***************************************************************************)
isAllocd(type) == type >= 16

\* partialFree(format, dest, members): the members it calls free for
partialFree(format, members) ==
    SelectSeq([m \in 1..members |-> m - 1],
              LAMBDA m : isAllocd(getMemberType(format, m)))

\* the store through getMember(f, dest, i)
SetMember(f, dest, i, value) == [dest EXCEPT ![f.displacements[i + 1]] = value]

ReadFails(f, r, i) == [ok |-> FALSE, dest |-> r.dest, freed |-> partialFree(f, i)]

\* readFormat, the switch on the kind of member i, for the token temp of
\* temp_length characters: [ok, dest, aux]
readMember(f, r, i, temp, temp_length, outside) ==
    LET t == getMemberType(f, i)
        old == getMember(f, r.dest, i)
    IN CASE t = INT ->
              [ok |-> safeStringToInt(temp, temp_length, old).ok,
               dest |-> SetMember(f, r.dest, i, safeStringToInt(temp, temp_length, old).i),
               aux |-> r.aux]
         [] t = STRING_KIND ->
              IF temp_length = 0 THEN [ok |-> FALSE, dest |-> r.dest, aux |-> r.aux]
              ELSE [ok |-> TRUE,
                    dest |-> SetMember(f, r.dest, i, SubSeq(temp, 1, temp_length)),
                    aux |-> [r.aux EXCEPT ![i] = temp_length]]
         [] t = STRING_NULL ->
              [ok |-> TRUE,
               dest |-> SetMember(f, r.dest, i, SubSeq(temp, 1, temp_length)),
               aux |-> [r.aux EXCEPT ![i] = temp_length]]
         [] t = INTLIST ->
              [ok |-> readIdList(temp, temp_length, old, r.aux[i]).ok,
               dest |-> SetMember(f, r.dest, i,
                                  readIdList(temp, temp_length, old, r.aux[i]).list),
               aux |-> [r.aux EXCEPT ![i] =
                          readIdList(temp, temp_length, old, r.aux[i]).list_size]]
         [] t = TYPE ->
              [ok |-> checkType(temp, temp_length, old).ok,
               dest |-> SetMember(f, r.dest, i, checkType(temp, temp_length, old).t),
               aux |-> r.aux]
         [] t \in {DATE, DATE_TIME} ->
              [ok |-> readDate(temp, temp_length, old, t = DATE_TIME, outside).ok,
               dest |-> SetMember(f, r.dest, i,
                           readDate(temp, temp_length, old, t = DATE_TIME, outside).date),
               aux |-> r.aux]
         [] t = BOOL ->
              [ok |-> checkBool(temp, temp_length, old).ok,
               dest |-> SetMember(f, r.dest, i, checkBool(temp, temp_length, old).dest),
               aux |-> r.aux]
         [] OTHER -> [ok |-> FALSE, dest |-> r.dest, aux |-> r.aux]

\* readFormat, the pairs after the loop: the length of a list is stored at
\* its address, or compared with the length member when it is one
RECURSIVE readFormatPairs(_, _, _)
readFormatPairs(f, r, k) ==
    IF k >= f.lists_no THEN [ok |-> TRUE, dest |-> r.dest, freed |-> <<>>]
    ELSE IF getListPairLengthMember(f, k) = -1
         THEN readFormatPairs(f,
                [r EXCEPT !.dest[f.lists[k + 1].length_displacement] =
                              r.aux[getListPairListMember(f, k)]], k + 1)
    ELSE IF r.aux[getListPairListMember(f, k)]
               # getMember(f, r.dest, getListPairLengthMember(f, k))
         THEN ReadFails(f, r, f.members)
    ELSE readFormatPairs(f, r, k + 1)

RECURSIVE readFormatFrom(_, _, _, _)

\* readFormat, member i once its token is cut out
readFormatToken(f, r, i, temp, temp_length, outside) ==
    IF ~isBinary(f) /\ ((i = f.members - 1) # r.null) THEN ReadFails(f, r, i)
    ELSE IF ~readMember(f, r, i, temp, temp_length, outside).ok
         THEN ReadFails(f, [r EXCEPT !.dest =
                                readMember(f, r, i, temp, temp_length, outside).dest], i)
    ELSE readFormatFrom(f,
            [r EXCEPT !.dest = readMember(f, r, i, temp, temp_length, outside).dest,
                      !.aux = readMember(f, r, i, temp, temp_length, outside).aux],
            i + 1, outside)

\* readFormat, member i of a binary format: the token is the next
\* temp_length bytes
readFormatBinary(f, r, i, temp_length, outside) ==
    readFormatToken(f, [r EXCEPT !.str = SubSeq(@, temp_length + 1, Len(@))],
                    i, r.str, temp_length, outside)

\* readFormat, the loop from member i on
readFormatFrom(f, r, i, outside) ==
    IF i >= f.members THEN readFormatPairs(f, r, 0)
    ELSE IF isBinary(f)
         THEN IF stringSize(getMemberType(f, i)) # 0
              THEN readFormatBinary(f, r, i, stringSize(getMemberType(f, i)), outside)
              ELSE readFormatBinary(f, [r EXCEPT !.list_index = @ + 1], i,
                      getMember(f, r.dest, getListPairLengthMember(f, r.list_index))
                      * elemStringSize(getMemberType(f, i)), outside)
    ELSE readFormatToken(f,
            [r EXCEPT !.str = strsep(r.str, f.separator).str,
                      !.null = strsep(r.str, f.separator).null],
            i, strsep(r.str, f.separator).temp,
            Len(strsep(r.str, f.separator).temp), outside)

\* readFormat(f, str, dest): aux_list_sizes is not initialised
readFormat(f, str, dest, outside) ==
    readFormatFrom(f, [str |-> str, null |-> FALSE, dest |-> dest,
                       aux |-> [m \in 0..(f.members - 1) |-> Junk],
                       list_index |-> 0], 0, outside)

\* checkFormat, the switch on the kind of member i: [ok, aux]
checkMember(f, c, i, temp, temp_length, outside) ==
    LET t == getMemberType(f, i)
    IN CASE t = INT -> [ok |-> checkInt(temp, temp_length), aux |-> c.aux]
         [] t = STRING_KIND -> [ok |-> temp_length # 0, aux |-> c.aux]
         [] t = STRING_NULL -> [ok |-> TRUE, aux |-> c.aux]
         [] t = INTLIST ->
              [ok |-> checkIdList(temp, temp_length, c.aux[i]).ok,
               aux |-> [c.aux EXCEPT ![i] =
                          checkIdList(temp, temp_length, c.aux[i]).list_size]]
         [] t = TYPE -> [ok |-> checkType(temp, temp_length, 0).ok, aux |-> c.aux]
         [] t = DATE -> [ok |-> checkDate(temp, temp_length, outside), aux |-> c.aux]
         [] t = BOOL -> [ok |-> checkBool(temp, temp_length, 0).ok, aux |-> c.aux]
         [] OTHER -> [ok |-> FALSE, aux |-> c.aux]

\* checkFormat, the pairs after the loop (textual formats only)
RECURSIVE checkFormatPairs(_, _, _)
checkFormatPairs(f, c, k) ==
    IF isBinary(f) \/ k >= f.lists_no THEN TRUE
    ELSE IF getListPairLengthMember(f, k) # -1
            /\ c.aux[getListPairListMember(f, k)]
               # atoi(c.temp_ptrs[getListPairLengthMember(f, k)])
         THEN FALSE
    ELSE checkFormatPairs(f, c, k + 1)

RECURSIVE checkFormatFrom(_, _, _, _)

\* checkFormat, member i once its token is cut out
checkFormatToken(f, c, i, temp, temp_length, outside) ==
    IF (i = f.members - 1) # c.null THEN FALSE
    ELSE IF ~checkMember(f, c, i, temp, temp_length, outside).ok THEN FALSE
    ELSE checkFormatFrom(f,
            [c EXCEPT !.aux = checkMember(f, c, i, temp, temp_length, outside).aux,
                      !.temp_ptrs[i] = temp],
            i + 1, outside)

\* checkFormat, member i of a binary format: str is NULL once a zero byte
\* follows the member
checkFormatBinary(f, c, i, temp_length, outside) ==
    checkFormatToken(f,
        [c EXCEPT !.str = SubSeq(@, temp_length + 1, Len(@)),
                  !.null = Len(c.str) <= temp_length \/ c.str[temp_length + 1] = 0],
        i, c.str, temp_length, outside)

\* checkFormat, the loop from member i on
checkFormatFrom(f, c, i, outside) ==
    IF i >= f.members THEN checkFormatPairs(f, c, 0)
    ELSE IF isBinary(f)
         THEN IF stringSize(getMemberType(f, i)) # 0
              THEN checkFormatBinary(f, c, i, stringSize(getMemberType(f, i)), outside)
              ELSE checkFormatBinary(f, [c EXCEPT !.list_index = @ + 1], i,
                      atoi(c.temp_ptrs[getListPairLengthMember(f, c.list_index)])
                      * elemStringSize(getMemberType(f, i)), outside)
    ELSE checkFormatToken(f,
            [c EXCEPT !.str = strsep(c.str, f.separator).str,
                      !.null = strsep(c.str, f.separator).null],
            i, strsep(c.str, f.separator).temp,
            Len(strsep(c.str, f.separator).temp), outside)

\* checkFormat(f, str): aux_list_sizes is not initialised
checkFormat(f, str, outside) ==
    checkFormatFrom(f, [str |-> str, null |-> FALSE,
                        aux |-> [m \in 0..(f.members - 1) |-> Junk],
                        temp_ptrs |-> [m \in -1..(f.members - 1) |-> <<>>],
                        list_index |-> 0], 0, outside)

(***************************************************************************)
(* A caller of the Record Format: it validates a line and reads it into an *)
(* object that already holds values (the textual formats), or prints a     *)
(* record and reads what was printed (the binary formats).                 *)
(***************************************************************************)
\* the members id, login, type, created_at, followers and follower_list of
\* getUserFormat; the length of login is kept in login_len, no member
UserTextFormat ==
    makeFormat(<<0, 1, 2, 3, 4, 5>>,
               <<INT, STRING_KIND, TYPE, DATE_TIME, INT, INTLIST>>,
               <<PAIR(1, 6), PAIR(5, 4)>>, Ascii[";"])
\* the members id, has_wiki, description and created_at of getRepoFormat
RepoTextFormat ==
    makeFormat(<<0, 1, 2, 3>>, <<INT, BOOL, STRING_NULL, DATE_TIME>>,
               <<PAIR(2, 4)>>, Ascii[";"])
\* the parameters of a query: a number and a date
QueryTextFormat == makeFormat(<<0, 1>>, <<INT, DATE>>, <<>>, Ascii[" "])
TextFormats == {UserTextFormat, RepoTextFormat, QueryTextFormat}

\* the lines a caller starts from, token by token
BaseTokens(f) ==
    IF f = UserTextFormat
    THEN { << Str(<<"1", "2", "3", "4">>), Str(<<"a", "l", "i", "c", "e">>),
              Str(<<"U", "s", "e", "r">>),
              Str(<<"2", "0", "1", "5", "-", "0", "6", "-", "0", "1", " ",
                    "0", "0", ":", "0", "0", ":", "0", "0">>),
              Str(<<"1">>), Str(<<"[", "2", "]">>) >>,
           << Str(<<"2">>), Str(<<"a", "l">>), Str(<<"B", "o", "t">>),
              Str(<<"2", "0", "1", "0", "-", "1", "2", "-", "3", "1", " ",
                    "2", "3", ":", "5", "9", ":", "5", "9">>),
              Str(<<"2">>), Str(<<"[", "3", ",", " ", "2", "]">>) >> }
    ELSE IF f = RepoTextFormat
    THEN { << Str(<<"7">>), Str(<<"T", "r", "u", "e">>), Str(<<"a", "b">>),
              Str(<<"2", "0", "1", "5", "-", "0", "6", "-", "0", "1", " ",
                    "0", "0", ":", "0", "0", ":", "0", "0">>) >> }
    ELSE { << Str(<<"5">>),
              Str(<<"2", "0", "1", "5", "-", "0", "6", "-", "0", "1">>) >> }

\* the tokens one token of a line is replaced with, by the kind of its member
AltTokens(type) ==
    CASE type = INT -> { Str(<<"a">>), <<>>, Str(<<"2">>), Str(<<"0", "1">>) }
      [] type = STRING_KIND -> { <<>> }
      [] type = STRING_NULL -> { <<>> }
      [] type = TYPE -> { Str(<<"O", "r", "g", "a", "n", "i", "z", "a", "t", "i", "o", "n">>),
                          Str(<<"b", "o", "t">>) }
      [] type = BOOL -> { Str(<<"F", "a", "l", "s", "e">>), Str(<<"t", "r", "u", "e">>) }
      [] type = INTLIST -> { Str(<<"[", "]">>), Str(<<"[", "2", ",", "3", "]">>),
                             Str(<<"2">>), Str(<<"[", "2", ",", " ", "3", "]">>) }
      [] type = DATE -> { Str(<<"2", "0", "1", "5", "-", "0", "2", "-", "3", "0">>),
                          Str(<<"2", "0", "1", "5", "-", "0", "6", "-", "0", "1", " ",
                                "0", "0", ":", "0", "0", ":", "0", "0">>) }
      [] type = DATE_TIME ->
            { Str(<<"2", "0", "1", "5", "-", "0", "6", "-", "0", "1", " ",
                    "a", "b", ":", "0", "0", ":", "0", "0">>),
              Str(<<"2", "0", "1", "5", "-", "1", "3", "-", "0", "1", " ",
                    "0", "0", ":", "0", "0", ":", "0", "0">>),
              Str(<<"2", "0", "0", "4", "-", "0", "6", "-", "0", "1", " ",
                    "0", "0", ":", "0", "0", ":", "0", "0">>),
              Str(<<"2", "0", "1", "5", "-", "0", "6", "-", "0", "1">>) }

\* the tokens with the separator between them
RECURSIVE JoinTokens(_, _)
JoinTokens(tokens, separator) ==
    IF tokens = <<>> THEN <<>>
    ELSE IF Len(tokens) = 1 THEN tokens[1]
    ELSE tokens[1] \o <<separator>> \o JoinTokens(Tail(tokens), separator)

\* the lines with one token replaced
ReplacedTokens(f, b) ==
    { [b EXCEPT ![ka[1]] = ka[2]] :
        ka \in UNION { {k} \X AltTokens(f.types[k]) : k \in 1..f.members } }

\* a line as it is, with one token replaced, without its last token, or with
\* one token more
TokenLists(f) ==
    UNION { ReplacedTokens(f, b)
            \cup {b, SubSeq(b, 1, Len(b) - 1), b \o <<Str(<<"1">>)>>} :
            b \in BaseTokens(f) }
TextLines(f) == { JoinTokens(t, f.separator) : t \in TokenLists(f) }

\* the fields of the objects of a format: those of its members and those
\* the lengths of its lists are kept in
Fields(f) ==
    {f.displacements[m] : m \in 1..f.members}
    \cup {f.lists[k].length_displacement : k \in 1..f.lists_no}

\* what an object holds before it is read into, by the kind of the member;
\* no line of TextLines holds these values
PriorMember(type) ==
    CASE type \in {STRING_KIND, STRING_NULL} -> Str(<<"z">>)
      [] type = INTLIST -> <<9>>
      [] type \in {DATE, DATE_TIME} -> setDate(2006, 1, 1, 1, 1, 1)
      [] type = TYPE -> BOT + 1
      [] type = BOOL -> 2
      [] OTHER -> 77
PriorObj(f) ==
    [d \in Fields(f) |->
        IF \E m \in 1..f.members : f.displacements[m] = d
        THEN PriorMember(f.types[CHOOSE m \in 1..f.members : f.displacements[m] = d])
        ELSE 77]

\* what monthsLength[month - 1] holds outside the array
OutsideVals == {0, 31}

\* the history of the caller:
\*   format   the format
\*   src      the record that was printed, or the object before the read
\*   str      the line, once there is one
\*   valid    what checkFormat returned, "none" before the call
\*   read     what readFormat returned, "none" before the call
\*   dest     the object readFormat read into
\*   freed    the members partialFree freed
FmtInit(format, src, str, phase, outside) ==
    [ format |-> format, src |-> src, str |-> str, phase |-> phase,
      outside |-> outside, valid |-> "none", read |-> "none",
      dest |-> IF isBinary(format) THEN EmptyObj(format) ELSE src, freed |-> <<>> ]

BoolName(b) == IF b THEN "true" ELSE "false"

\* printFormat(f, src, dest) of a record
PrintFormat ==
    /\ fm.phase = "record"
    /\ fm' = [fm EXCEPT !.str = printFormat(fm.format, fm.src), !.phase = "line"]

\* checkFormat(f, str)
CheckFormat ==
    /\ fm.phase = "line"
    /\ fm.valid = "none"
    /\ fm' = [fm EXCEPT !.valid = BoolName(checkFormat(fm.format, fm.str, fm.outside))]

\* what readFormat left, kept in the history
ReadFormatDone(res) ==
    fm' = [fm EXCEPT !.read = BoolName(res.ok), !.dest = res.dest, !.freed = res.freed]

\* readFormat(f, str, dest)
ReadFormat ==
    /\ fm.phase = "line"
    /\ fm.read = "none"
    /\ ReadFormatDone(readFormat(fm.format, fm.str, fm.dest, fm.outside))

InitFmt ==
    /\ cache = getCache(1, FALSE)
    /\ ghost = GhostInit(1)
    /\ disk = InitDisk(NumPages)
    /\ ret = <<>>
    /\ op = NoOp
    /\ nops = 0
    /\ hist = <<>>
    /\ th = [t \in Threads |-> Idle]
    /\ ix = makeIndexer
    /\ ig = IdxGhostInit
    /\ lz = NULL
    /\ user = NULL
    /\ OthersInit
    /\ \E outside \in OutsideVals :
          \/ \E format \in TextFormats : \E str \in TextLines(format) :
                fm = FmtInit(format, PriorObj(format), str, "line", outside)
          \/ \E format \in LazyFormats : \E rec \in LazyRecords(format) :
                fm = FmtInit(format, rec, <<>>, "record", outside)

NextFmt ==
    /\ UNCHANGED <<cache, disk, ghost, ret, op, nops, hist, th, ix, ig, lz, user, others>>
    /\ \/ PrintFormat
       \/ CheckFormat
       \/ ReadFormat

SpecFmt == InitFmt /\ [][NextFmt]_vars

\* the members of the object that hold other values than before the read
Changed(f, before, after) ==
    {m \in 0..(f.members - 1) : getMember(f, after, m) # getMember(f, before, m)}

\* C16: binary round trip: once readFormat has read what printFormat wrote
\* for a record of a binary format, it has returned true and every member of
\* the object read equals the member of the record.
C16_BinaryRoundTrip ==
    (isBinary(fm.format) /\ fm.read # "none")
    => /\ fm.read = "true"
       /\ Changed(fm.format, fm.src, fm.dest) = {}

\* C18: atomic failure of read: once readFormat has returned false for a
\* line of a textual format, every member it had allocated was freed exactly
\* once and every member of the object holds the value it held before.
C18_AtomicFailure ==
    (~isBinary(fm.format) /\ fm.read = "false")
    => /\ \A m \in Changed(fm.format, fm.src, fm.dest) :
             isAllocd(getMemberType(fm.format, m))
             => Cardinality({k \in 1..Len(fm.freed) : fm.freed[k] = m}) = 1
       /\ \A k1, k2 \in 1..Len(fm.freed) : fm.freed[k1] = fm.freed[k2] => k1 = k2
       /\ Changed(fm.format, fm.src, fm.dest) = {}
       /\ \A d \in Fields(fm.format) : fm.dest[d] = fm.src[d]

\* C19: checkFormat returns true on exactly the lines of a textual format on
\* which readFormat returns true.
C19_ValidateIffRead ==
    (~isBinary(fm.format) /\ fm.valid # "none" /\ fm.read # "none")
    => fm.valid = fm.read

(***************************************************************************)
(* The friends of a user (user.c).  An object of struct user is a function *)
(* of its fields, numbered in the order of the struct.                     *)
(***************************************************************************)
user_id == 0
user_login_len == 1
user_login == 2
user_type == 3
user_created_at == 4
user_followers == 5
user_follower_list == 6
user_following == 7
user_following_list == 8
user_public_gists == 9
user_public_repos == 10
user_friends == 11
user_friends_list == 12

\* initUser(): the pointers are NULL, the other fields are not initialised
initUser ==
    [d \in user_id..user_friends_list |->
        IF d \in {user_login, user_follower_list, user_following_list, user_friends_list}
        THEN <<>>
        ELSE IF d = user_created_at THEN setDate(0, 0, 0, 0, 0, 0)
        ELSE Junk]

\* compareInts(a, b)
compareInts(a, b) == a - b

\* qsort(base, nmemb, sizeof(int), compareInts): the first nmemb elements in
\* the order of compareInts
RECURSIVE qsortInsert(_, _)
qsortInsert(sorted, x) ==
    IF sorted = <<>> THEN <<x>>
    ELSE IF compareInts(x, Head(sorted)) <= 0 THEN <<x>> \o sorted
    ELSE <<Head(sorted)>> \o qsortInsert(Tail(sorted), x)
RECURSIVE qsort(_, _)
qsort(base, nmemb) ==
    IF nmemb = 0 THEN <<>>
    ELSE qsortInsert(qsort(base, nmemb - 1), base[nmemb])

\* containedInSortedArray(array, array_length, val): the loop from l and r
RECURSIVE containedInSortedArrayFrom(_, _, _, _)
containedInSortedArrayFrom(array, l, r, val) ==
    IF l > r THEN FALSE
    ELSE IF array[((l + r) \div 2) + 1] < val
         THEN containedInSortedArrayFrom(array, ((l + r) \div 2) + 1, r, val)
    ELSE IF array[((l + r) \div 2) + 1] > val
         THEN containedInSortedArrayFrom(array, l, ((l + r) \div 2) - 1, val)
    ELSE TRUE
containedInSortedArray(array, array_length, val) ==
    containedInSortedArrayFrom(array, 0, array_length - 1, val)

\* calculateFriends, the loop over big: the elements of big that the binary
\* search finds in small, in the order of big
RECURSIVE calculateFriendsFrom(_, _, _, _, _)
calculateFriendsFrom(small, small_l, big, big_l, i) ==
    IF i >= big_l THEN <<>>
    ELSE (IF containedInSortedArray(small, small_l, big[i + 1]) THEN <<big[i + 1]>>
          ELSE <<>>)
         \o calculateFriendsFrom(small, small_l, big, big_l, i + 1)

\* calculateFriends once small is sorted in place
calculateFriendsSorted(u, small_field, small_l, big_field, big_l) ==
    [u EXCEPT ![user_friends_list] =
                 calculateFriendsFrom(u[small_field], small_l, u[big_field], big_l, 0),
              ![user_friends] =
                 Len(calculateFriendsFrom(u[small_field], small_l, u[big_field], big_l, 0))]

\* calculateFriends with small and big chosen
calculateFriendsOf(u, small_field, small_l, big_field, big_l) ==
    calculateFriendsSorted([u EXCEPT ![small_field] = qsort(u[small_field], small_l)],
                           small_field, small_l, big_field, big_l)

\* calculateFriends(user)
calculateFriends(u) ==
    IF u[user_followers] = 0 \/ u[user_following] = 0
    THEN [u EXCEPT ![user_friends] = 0, ![user_friends_list] = <<>>]
    ELSE IF u[user_followers] < u[user_following]
         THEN calculateFriendsOf(u, user_follower_list,
                                 Min(u[user_followers], u[user_following]),
                                 user_following_list,
                                 Max(u[user_followers], u[user_following]))
    ELSE calculateFriendsOf(u, user_following_list,
                            Min(u[user_followers], u[user_following]),
                            user_follower_list,
                            Max(u[user_followers], u[user_following]))

\* areUsersFriends(a, b_id)
areUsersFriends(a, b_id) ==
    containedInSortedArray(a[user_friends_list], a[user_friends], b_id)

\* the ids of the lists of followers, the longest list, and the ids asked for
FollowIds == {1, 2, 3}
MaxFollow == 3
AskedIds == FollowIds \cup {4}
FollowLists == UNION { [1..n -> FollowIds] : n \in 0..MaxFollow }

\* a user as readFormat leaves it: each list with its length
UserWithLists(follower_list, following_list) ==
    [initUser EXCEPT ![user_followers] = Len(follower_list),
                     ![user_follower_list] = follower_list,
                     ![user_following] = Len(following_list),
                     ![user_following_list] = following_list]

\* the history kept beside the user:
\*   u       the user
\*   read    the user as it was read
\*   phase   "read", then "friends" once calculateFriends has run
\*   asked   the id areUsersFriends was last asked about, 0 if none
\*   answer  what it returned
UserInit(u) == [u |-> u, read |-> u, phase |-> "read", asked |-> 0, answer |-> FALSE]

CalculateFriends ==
    /\ user.phase = "read"
    /\ user' = [user EXCEPT !.u = calculateFriends(user.u), !.phase = "friends"]

AreUsersFriends(b_id) ==
    /\ user.phase = "friends"
    /\ user' = [user EXCEPT !.asked = b_id, !.answer = areUsersFriends(user.u, b_id)]

InitFriends ==
    /\ cache = getCache(1, FALSE)
    /\ ghost = GhostInit(1)
    /\ disk = InitDisk(NumPages)
    /\ ret = <<>>
    /\ op = NoOp
    /\ nops = 0
    /\ hist = <<>>
    /\ th = [t \in Threads |-> Idle]
    /\ ix = makeIndexer
    /\ ig = IdxGhostInit
    /\ lz = NULL
    /\ fm = NULL
    /\ OthersInit
    /\ \E follower_list \in FollowLists, following_list \in FollowLists :
          user = UserInit(UserWithLists(follower_list, following_list))

NextFriends ==
    /\ UNCHANGED <<cache, disk, ghost, ret, op, nops, hist, th, ix, ig, lz, fm, others>>
    /\ \/ CalculateFriends
       \/ \E b_id \in AskedIds : AreUsersFriends(b_id)

SpecFriends == InitFriends /\ [][NextFriends]_vars

\* the ids of a list
IdsOf(list) == {list[k] : k \in 1..Len(list)}
\* the ids that are in both lists of the user as it was read
Intersection == IdsOf(user.read[user_follower_list]) \cap IdsOf(user.read[user_following_list])

\* C20: once calculateFriends has run, the friends list holds exactly the ids
\* that are in both the followers and the following list, it is sorted
\* ascending, and areUsersFriends(U, v) is true iff v is one of those ids.
C20_Friends ==
    user.phase = "friends"
    => /\ IdsOf(user.u[user_friends_list]) = Intersection
       /\ user.u[user_friends] = Len(user.u[user_friends_list])
       /\ \A k \in 1..(Len(user.u[user_friends_list]) - 1) :
             user.u[user_friends_list][k] <= user.u[user_friends_list][k + 1]
       /\ user.asked # 0 => (user.answer <=> user.asked \in Intersection)

(***************************************************************************)
(* A line of the users file on its way through the program (parseUsers):   *)
(* readFormat with the textual format, calculateFriends, printFormat with   *)
(* the compressed format into the binary file, every member read back      *)
(* through a Lazy at the position of the record, and the object of the     *)
(* Lazy printed with the textual format.                                   *)
(***************************************************************************)
getUserFormat ==
    makeFormat(<<user_id, user_login, user_type, user_created_at, user_followers,
                 user_follower_list, user_following, user_following_list,
                 user_public_gists, user_public_repos>>,
               <<INT, STRING_KIND, TYPE, DATE_TIME, INT, INTLIST, INT, INTLIST, INT, INT>>,
               <<PAIR(1, user_login_len), PAIR(5, user_followers),
                 PAIR(7, user_following)>>, Ascii[";"])

getCompressedUserFormat ==
    makeFormat(<<user_id, user_login_len, user_type, user_friends, user_friends_list,
                 user_login, user_created_at, user_public_gists, user_public_repos,
                 user_followers, user_following, user_follower_list,
                 user_following_list>>,
               <<BINARY_INT, BINARY_INT, BINARY_TYPE, BINARY_INT, BINARY_INTLIST,
                 STRING_KIND, BINARY_DATE_TIME, BINARY_INT, BINARY_INT, BINARY_INT,
                 BINARY_INT, BINARY_INTLIST, BINARY_INTLIST>>,
               <<PAIR(4, user_friends), PAIR(5, user_login_len),
                 PAIR(11, user_followers), PAIR(12, user_following)>>, 0)

\* three lines of the users file, token by token
UserBaseTokens ==
    { << Str(<<"1", "2", "3", "4">>), Str(<<"a", "l", "i", "c", "e">>),
         Str(<<"U", "s", "e", "r">>),
         Str(<<"2", "0", "1", "5", "-", "0", "6", "-", "0", "1", " ",
               "0", "0", ":", "0", "0", ":", "0", "0">>),
         Str(<<"1">>), Str(<<"[", "2", "]">>), Str(<<"1">>), Str(<<"[", "2", "]">>),
         Str(<<"3">>), Str(<<"4">>) >>,
      << Str(<<"2">>), Str(<<"a", "l">>), Str(<<"B", "o", "t">>),
         Str(<<"2", "0", "1", "0", "-", "1", "2", "-", "3", "1", " ",
               "2", "3", ":", "5", "9", ":", "5", "9">>),
         Str(<<"2">>), Str(<<"[", "2", ",", " ", "3", "]">>),
         Str(<<"3">>), Str(<<"[", "3", ",", " ", "1", ",", " ", "2", "]">>),
         Str(<<"0">>), Str(<<"2", "5", "8">>) >>,
      << Str(<<"3">>), Str(<<"b">>), Str(<<"U", "s", "e", "r">>),
         Str(<<"2", "0", "1", "0", "-", "1", "2", "-", "3", "1", " ",
               "2", "3", ":", "5", "9", ":", "5", "9">>),
         Str(<<"2">>), Str(<<"[", "3", ",", " ", "2", "]">>),
         Str(<<"2">>), Str(<<"[", "2", ",", " ", "1", "]">>),
         Str(<<"1">>), Str(<<"0">>) >> }

\* the lines, and the lines with one token replaced
UserLines ==
    { JoinTokens(t, getUserFormat.separator) :
        t \in UNION { ReplacedTokens(getUserFormat, b) \cup {b} : b \in UserBaseTokens } }

\* the history kept beside the user, with
\*   line     the line of the users file
\*   outside  what monthsLength[month - 1] holds outside the array
\*   out      the line printed at the end
UserOfLine(line, outside) ==
    [ u |-> initUser, read |-> initUser, phase |-> "line", asked |-> 0,
      answer |-> FALSE, line |-> line, outside |-> outside, out |-> <<>> ]

\* what readFormat left of the line
ReadUserDone(res) ==
    user' = [user EXCEPT !.u = res.dest, !.read = res.dest,
                         !.phase = IF res.ok THEN "read" ELSE "rejected"]

\* parseUsers: readFormat(user_f, buffer, u)
ReadUser ==
    /\ user.phase = "line"
    /\ ReadUserDone(readFormat(getUserFormat, user.line, user.u, user.outside))

\* parseUsers: pos = ftell(compressed_users); printFormat(comp_user_f, u,
\* compressed_users); the record is then read through a Lazy at pos
PrintUser ==
    /\ user.phase = "friends"
    /\ disk' = [disk EXCEPT
                  ![DataFile] = RecordFile(getCompressedUserFormat, user.u, LazyBase)]
    /\ lz' = LazyInit(getCompressedUserFormat, user.u, LazyBase)
    /\ user' = [user EXCEPT !.phase = "printed"]

\* getLazyMember of the next member of the record
LoadUserMember ==
    /\ user.phase = "printed"
    /\ \E member \in 0..(lz.l.format.members - 1) :
          /\ member = Cardinality(Loaded(lz.l))
          /\ GetLazyMember(member)

\* printFormat(user_f, obj, out) of the object of the Lazy
PrintUserLine ==
    /\ user.phase = "printed"
    /\ Cardinality(Loaded(lz.l)) = lz.l.format.members
    /\ user' = [user EXCEPT !.out = printFormat(getUserFormat, lz.l.obj),
                            !.phase = "out"]

InitUser ==
    /\ \E line_num \in 1..MaxLines, alt0 \in BOOLEAN :
          /\ cache = getCache(line_num, alt0)
          /\ ghost = GhostInit(line_num)
    /\ disk = InitDisk(NumPages)
    /\ ret = <<>>
    /\ op = NoOp
    /\ nops = 0
    /\ hist = <<>>
    /\ th = [t \in Threads |-> Idle]
    /\ ix = makeIndexer
    /\ ig = IdxGhostInit
    /\ lz = NULL
    /\ fm = NULL
    /\ OthersInit
    /\ \E line \in UserLines, outside \in OutsideVals :
          user = UserOfLine(line, outside)

NextUser ==
    /\ UNCHANGED <<ghost, ret, op, nops, hist, th, ix, ig, fm, others>>
    /\ \/ ReadUser /\ UNCHANGED <<cache, disk, lz>>
       \/ CalculateFriends /\ UNCHANGED <<cache, disk, lz>>
       \/ PrintUser /\ UNCHANGED cache
       \/ LoadUserMember /\ UNCHANGED user
       \/ PrintUserLine /\ UNCHANGED <<cache, disk, lz>>

SpecUser == InitUser /\ [][NextUser]_vars

\* C17: a line of the users file that readFormat accepted, written with the
\* compressed format, read back member by member through a Lazy and printed
\* with the textual format, is the line that was read.
C17_CsvRoundTrip ==
    user.phase = "out" => user.out = user.line

(***************************************************************************)
(* A date compacted to an int and uncompacted again (date.c).              *)
(***************************************************************************)
\* the dates: the first and the last year that fit 6 bits, the years on both
\* sides of the sign bit, and in every other component its least value, its
\* greatest value and a value with the high bit of the field set
PackedYears == {2005, 2006, 2021, 2036, 2037, 2068}
PackedDates ==
    { setDate(year, month, day, hour, minute, second) :
        year \in PackedYears, month \in {1, 6, 8, 12}, day \in {1, 16, 31},
        hour \in {0, 16, 23}, minute \in {0, 32, 59}, second \in {0, 32, 59} }

\* the history of the date:
\*   date    the date
\*   phase   "date", "compacted", "uncompacted"
\*   c       the int getCompactedDate returned
\*   back    the date getUncompactedDate returned
DateInit(date) == [date |-> date, phase |-> "date", c |-> 0, back |-> date]

GetCompactedDate ==
    /\ dt.phase = "date"
    /\ dt' = [dt EXCEPT !.c = getCompactedDate(dt.date), !.phase = "compacted"]

GetUncompactedDate ==
    /\ dt.phase = "compacted"
    /\ dt' = [dt EXCEPT !.back = getUncompactedDate(dt.c), !.phase = "uncompacted"]

InitDate ==
    /\ cache = getCache(1, FALSE)
    /\ ghost = GhostInit(1)
    /\ disk = InitDisk(NumPages)
    /\ ret = <<>>
    /\ op = NoOp
    /\ nops = 0
    /\ hist = <<>>
    /\ th = [t \in Threads |-> Idle]
    /\ ix = makeIndexer
    /\ ig = IdxGhostInit
    /\ lz = NULL
    /\ fm = NULL
    /\ user = NULL
    /\ tm = NULL
    /\ ct = NULL
    /\ qs = NULL
    /\ \E date \in PackedDates : dt = DateInit(date)

NextDate ==
    /\ UNCHANGED <<cache, disk, ghost, ret, op, nops, hist, th, ix, ig, lz, fm, user,
                   tm, ct, qs>>
    /\ \/ GetCompactedDate
       \/ GetUncompactedDate

SpecDate == InitDate /\ [][NextDate]_vars

\* C21: a date whose year is from 2005 to 2068 (year - 2005 fits 6 bits),
\* compacted with getCompactedDate and uncompacted with getUncompactedDate,
\* is the same date in its six components.
C21_PackedRoundTrip ==
    dt.phase = "uncompacted"
    => /\ dt.back.year = dt.date.year /\ dt.back.month = dt.date.month
       /\ dt.back.day = dt.date.day /\ dt.back.hour = dt.date.hour
       /\ dt.back.minute = dt.date.minute /\ dt.back.second = dt.date.second

\* a date of 2068, whose year sets the sign bit of the int, has made the trip
C21_Witness ==
    /\ dt.phase = "uncompacted"
    /\ dt.date = setDate(2068, 12, 31, 23, 59, 59)
    /\ dt.c < 0

(***************************************************************************)
(* The task manager (taskManager.c): executeTasks creates the workers, a   *)
(* worker runs fetchTasks, and executeTasks joins them.  A step of a       *)
(* worker is one of: pthread_mutex_lock, the read of *task, the write of   *)
(* *task, pthread_mutex_unlock with the test that follows, and the return  *)
(* of the solver.                                                          *)
(***************************************************************************)
MaxTasks == 3
MaxWorkers == 3
Workers == 1..MaxWorkers

\* executeTasks(taskList, tasks, catalog, solver, threads) up to the loop
\* that creates the threads:
\*   tasks, threads  the parameters, threads cut down to tasks
\*   task            the index of the next task
\*   mutex           the worker that holds the mutex, 0 if none
\*   pc[t]           where worker t is, "none" before pthread_create
\*   cur[t]          current_task of worker t
\*   created, joined the threads created and joined so far
\*   returned        executeTasks has returned
\*   calls[i]        how often the solver was called with index i
\*   ended[i]        how often the solver returned from a call with index i
\*   by[i]           the worker that called it last, 0 if none
executeTasks(tasks, threads) ==
    [ tasks |-> tasks, threads |-> IF tasks < threads THEN tasks ELSE threads,
      task |-> 0, mutex |-> 0,
      pc |-> [t \in Workers |-> "none"], cur |-> [t \in Workers |-> 0],
      created |-> 0, joined |-> 0, returned |-> FALSE,
      calls |-> [i \in 0..MaxTasks |-> 0], ended |-> [i \in 0..MaxTasks |-> 0],
      by |-> [i \in 0..MaxTasks |-> 0] ]

\* executeTasks: pthread_create(&threadArr[i], NULL, fetchTasks, params)
CreateThread ==
    /\ tm.created < tm.threads
    /\ tm' = [tm EXCEPT !.created = @ + 1, !.pc[tm.created + 1] = "lock"]

\* fetchTasks without the wait for the mutex
LockNoWait(t) ==
    /\ tm.pc[t] = "lock"
    /\ tm' = [tm EXCEPT !.mutex = t, !.pc[t] = "read"]

\* fetchTasks: pthread_mutex_lock(mutex)
Lock(t) ==
    /\ tm.pc[t] = "lock"
    /\ tm.mutex = 0
    /\ tm' = [tm EXCEPT !.mutex = t, !.pc[t] = "read"]

\* fetchTasks: current_task = *task
ReadTask(t) ==
    /\ tm.pc[t] = "read"
    /\ tm' = [tm EXCEPT !.cur[t] = tm.task, !.pc[t] = "write"]

\* fetchTasks: *task = current_task + 1
WriteTask(t) ==
    /\ tm.pc[t] = "write"
    /\ tm' = [tm EXCEPT !.task = tm.cur[t] + 1, !.pc[t] = "unlock"]

\* fetchTasks: pthread_mutex_unlock(mutex), then the worker stops or calls
\* solver(current_task, taskList[current_task], catalog)
Unlock(t) ==
    /\ tm.pc[t] = "unlock"
    /\ tm' = IF tm.cur[t] >= tm.tasks
             THEN [tm EXCEPT !.mutex = 0, !.pc[t] = "exit"]
             ELSE [tm EXCEPT !.mutex = 0, !.pc[t] = "solver",
                             !.calls[tm.cur[t]] = @ + 1, !.by[tm.cur[t]] = t]

\* fetchTasks: the solver returns
SolverReturns(t) ==
    /\ tm.pc[t] = "solver"
    /\ tm' = [tm EXCEPT !.ended[tm.cur[t]] = @ + 1, !.pc[t] = "lock"]

\* executeTasks: pthread_join(threadArr[i], NULL)
JoinThread ==
    /\ tm.created = tm.threads
    /\ tm.joined < tm.threads
    /\ tm.pc[tm.joined + 1] = "exit"
    /\ tm' = [tm EXCEPT !.joined = @ + 1]

\* executeTasks: pthread_mutex_destroy and return
ExecuteTasksReturns ==
    /\ tm.created = tm.threads
    /\ tm.joined = tm.threads
    /\ ~tm.returned
    /\ tm' = [tm EXCEPT !.returned = TRUE]

InitPool ==
    /\ cache = getCache(1, FALSE)
    /\ ghost = GhostInit(1)
    /\ disk = InitDisk(NumPages)
    /\ ret = <<>>
    /\ op = NoOp
    /\ nops = 0
    /\ hist = <<>>
    /\ th = [t \in Threads |-> Idle]
    /\ ix = makeIndexer
    /\ ig = IdxGhostInit
    /\ lz = NULL
    /\ fm = NULL
    /\ user = NULL
    /\ dt = NULL
    /\ ct = NULL
    /\ qs = NULL
    /\ \E tasks \in 0..MaxTasks, threads \in Workers : tm = executeTasks(tasks, threads)

NextPool ==
    /\ UNCHANGED <<cache, disk, ghost, ret, op, nops, hist, th, ix, ig, lz, fm, user,
                   dt, ct, qs>>
    /\ \/ CreateThread
       \/ \E t \in Workers : Lock(t)
       \/ \E t \in Workers : ReadTask(t)
       \/ \E t \in Workers : WriteTask(t)
       \/ \E t \in Workers : Unlock(t)
       \/ \E t \in Workers : SolverReturns(t)
       \/ JoinThread
       \/ ExecuteTasksReturns

\* every thread that can take a step takes one in the end, and so does
\* executeTasks
SpecPool == InitPool /\ [][NextPool]_vars /\ WF_vars(NextPool)

\* no index is called twice or outside 0..tasks-1, and once executeTasks has
\* returned every index was called, every call has returned and every
\* worker has left fetchTasks
PoolSafe ==
    /\ \A i \in 0..MaxTasks : tm.calls[i] <= (IF i < tm.tasks THEN 1 ELSE 0)
    /\ tm.returned
       => /\ \A i \in 0..MaxTasks : i < tm.tasks => tm.calls[i] = 1 /\ tm.ended[i] = 1
          /\ \A t \in Workers : tm.pc[t] \in {"none", "exit"}
          /\ \A t \in Workers : t <= tm.threads => tm.pc[t] = "exit"

\* C22: for every number of tasks and of workers and every interleaving, the
\* solver is called exactly once with each index in 0..tasks-1 and with no
\* other, every worker leaves fetchTasks once the indexes are used up, and
\* executeTasks returns, and only after every call of the solver has returned.
C22_WorkerPool == []PoolSafe /\ <>(tm.returned)

\* three tasks were solved by two workers at least, and executeTasks returned
C22_Witness ==
    /\ tm.returned
    /\ tm.tasks = MaxTasks
    /\ \E i, j \in 0..(MaxTasks - 1) : tm.by[i] # tm.by[j] /\ tm.by[i] # 0 /\ tm.by[j] # 0

(***************************************************************************)
(* The files of the catalog (catalog.c) and the command line (main.c):     *)
(* loadCatalog, newCatalog, freeCatalog and main with one argument.  A     *)
(* file of the catalog is "absent", "unreadable" (access(path, R_OK)       *)
(* fails on it), "new" (created or truncated by fopen(path, "wb+"), with   *)
(* the data written to it still in the buffers of the process) or "whole"  *)
(* (flushed or closed after the last write).                               *)
(***************************************************************************)
COMPRESSED_USERS == "users.dat"
COMPRESSED_COMMITS == "commits.dat"
COMPRESSED_REPOS == "repos.dat"
USERSBYID_IND == "usersById.indx"
REPOSBYID_IND == "reposById.indx"
COMMITSBYREPO_IND == "commitsByRepo.indx"
COMMITSBYREPO_IND_VALS == "commitsByRepo.dat"
REPOSBYLASTCOMMITDATE_IND == "reposByLastCommitDate.indx"
REPOSBYLANGUAGE_IND == "reposByLanguage.indx"
REPOSBYLANGUAGE_IND_VALS == "reposByLanguage.dat"
COMMITSBYDATE_IND == "commitsByDate.indx"
COLLABORATORS_IND == "collaborators.indx"
COLLABORATORS_IND_VALS == "collaborators.dat"
STATIC_QUERIES == "staticQueries.dat"

\* the paths loadCatalog probes, in the order of its condition
ProbedPaths ==
    << COMPRESSED_USERS, COMPRESSED_COMMITS, COMPRESSED_REPOS, USERSBYID_IND,
       REPOSBYID_IND, COMMITSBYREPO_IND, COMMITSBYREPO_IND_VALS,
       REPOSBYLASTCOMMITDATE_IND, REPOSBYLANGUAGE_IND, REPOSBYLANGUAGE_IND_VALS,
       COMMITSBYDATE_IND, COLLABORATORS_IND, COLLABORATORS_IND_VALS, STATIC_QUERIES >>

\* the paths loadCatalog probes when the probe of the last values file is
\* left out
ProbedPathsButOne ==
    << COMPRESSED_USERS, COMPRESSED_COMMITS, COMPRESSED_REPOS, USERSBYID_IND,
       REPOSBYID_IND, COMMITSBYREPO_IND, COMMITSBYREPO_IND_VALS,
       REPOSBYLASTCOMMITDATE_IND, REPOSBYLANGUAGE_IND, REPOSBYLANGUAGE_IND_VALS,
       COMMITSBYDATE_IND, COLLABORATORS_IND, STATIC_QUERIES >>

CatalogPaths == { ProbedPaths[k] : k \in 1..Len(ProbedPaths) }

\* the files newCatalog opens with "wb+" before it parses, in its order: the
\* three files of records, then makeIndexer for the seven indexes
OpenedPaths ==
    << COMPRESSED_USERS, COMPRESSED_COMMITS, COMPRESSED_REPOS, USERSBYID_IND,
       REPOSBYID_IND, COMMITSBYREPO_IND, REPOSBYLASTCOMMITDATE_IND,
       REPOSBYLANGUAGE_IND, COMMITSBYDATE_IND, COLLABORATORS_IND >>

\* the indexes that groupIndexer rewrites, each with its file of values
GroupedIndexes == {COMMITSBYREPO_IND, REPOSBYLANGUAGE_IND, COLLABORATORS_IND}
ValuesFileOf(index) ==
    CASE index = COMMITSBYREPO_IND -> COMMITSBYREPO_IND_VALS
      [] index = REPOSBYLANGUAGE_IND -> REPOSBYLANGUAGE_IND_VALS
      [] index = COLLABORATORS_IND -> COLLABORATORS_IND_VALS

\* access(path, R_OK): 0 if the file can be read, -1 if not
access(file, path) == IF file[path] \in {"absent", "unreadable"} THEN -1 ELSE 0

\* fopen(path, "wb+") fails on a file the process may not read and write
CannotOpen(file, path) == file[path] = "unreadable"

\* fread(buffer, sizeof(char), 36, staticQueries): the bytes loadCatalog reads
ReadStatic(file) == IF file[STATIC_QUERIES] = "whole" THEN 36 ELSE 0

\* the condition of loadCatalog without the probe of one file
ProbeFailsButOne(file) ==
    \E k \in 1..Len(ProbedPathsButOne) : access(file, ProbedPathsButOne[k]) # 0

\* the condition of loadCatalog: some access(..., R_OK) is not 0
ProbeFails(file) ==
    \E k \in 1..Len(ProbedPaths) : access(file, ProbedPaths[k]) # 0

\* loadCatalog: ans is the catalog returned, "NULL" if none; opened says that a
\* catalog was allocated and its files opened; exited that an OPEN_FILE of
\* loadCatalog ended the process
loadCatalog(file) ==
    IF ProbeFails(file)
    THEN [ans |-> "NULL", opened |-> FALSE, exited |-> FALSE]
    ELSE IF \E path \in CatalogPaths : access(file, path) # 0
         THEN [ans |-> "NULL", opened |-> TRUE, exited |-> TRUE]
         ELSE IF ReadStatic(file) # 36
              THEN [ans |-> "NULL", opened |-> TRUE, exited |-> FALSE]
              ELSE [ans |-> "catalog", opened |-> TRUE, exited |-> FALSE]

MaxRuns == 3

\* the state of the files and of the process:
\*   file     the state of each file of the catalog
\*   pc       where main is
\*   ans      the catalog main holds, "NULL" if none
\*   opened   loadCatalog allocated a catalog in this run
\*   missing  the files that could not be read when loadCatalog was called
\*   next     the index in OpenedPaths of the file newCatalog opens next
\*   group    where groupIndexer is for each grouped index
\*   built    newCatalog has returned in this run
\*   called   newCatalog was called in this run
\*   ran      readAndExecuteQueries was called in this run
\*   partial  a build was cut short and no build has finished since
\*   runs     the runs of the program so far
CatalogInit(file) ==
    [ file |-> file, pc |-> "main", ans |-> "NULL", opened |-> FALSE,
      missing |-> {}, next |-> 1,
      group |-> [index \in GroupedIndexes |-> "todo"],
      built |-> FALSE, called |-> FALSE, ran |-> FALSE, partial |-> FALSE,
      runs |-> 1 ]

\* main: Catalog catalog = loadCatalog(); if (catalog == NULL) ...
LoadCatalog ==
    /\ ct.pc = "main"
    /\ ct' = [ct EXCEPT
                !.ans = loadCatalog(ct.file).ans,
                !.opened = loadCatalog(ct.file).opened,
                !.missing = { path \in CatalogPaths : access(ct.file, path) # 0 },
                !.pc = IF loadCatalog(ct.file).exited THEN "exited"
                       ELSE IF loadCatalog(ct.file).ans = "NULL" THEN "newCatalog"
                       ELSE "queries"]

\* main: catalog = newCatalog(USERS_IN, COMMITS_IN, REPOS_IN, true), up to
\* the first OPEN_FILE of a file of the catalog
NewCatalog ==
    /\ ct.pc = "newCatalog"
    /\ ct' = [ct EXCEPT !.called = TRUE, !.pc = "open"]

\* newCatalog: OPEN_FILE(COMPRESSED_USERS, "wb+") ... makeIndexer(COLLABORATORS_IND, ...);
\* OPEN_FILE ends the process if fopen fails
OpenFile ==
    /\ ct.pc = "open"
    /\ ct' = IF CannotOpen(ct.file, OpenedPaths[ct.next])
             THEN [ct EXCEPT !.pc = "exited", !.partial = TRUE]
             ELSE [ct EXCEPT !.file[OpenedPaths[ct.next]] = "new",
                             !.next = @ + 1,
                             !.pc = IF ct.next = Len(OpenedPaths) THEN "parse" ELSE "open"]

\* newCatalog: parseUsers, fillRepoIdHashTable, filterCommits and the loops of
\* parseRepos and parseCommits, which write records and index lines
ParseInputs ==
    /\ ct.pc = "parse"
    /\ ct' = [ct EXCEPT !.pc = "group"]

\* groupIndexer: OPEN_FILE(value_file, "wb+")
GroupOpenValues(index) ==
    /\ ct.pc = "group"
    /\ ct.group[index] = "todo"
    /\ ct' = IF CannotOpen(ct.file, ValuesFileOf(index))
             THEN [ct EXCEPT !.pc = "exited", !.partial = TRUE]
             ELSE [ct EXCEPT !.file[ValuesFileOf(index)] = "new", !.group[index] = "values"]

\* groupIndexer: fclose(i->index); fclose(dest); remove(i->index_name)
GroupRemoveIndex(index) ==
    /\ ct.pc = "group"
    /\ ct.group[index] = "values"
    /\ ct' = [ct EXCEPT !.file[index] = "absent", !.group[index] = "removed"]

\* groupIndexer: rename(dest_name, i->index_name) ... fflush(out)
GroupRenameIndex(index) ==
    /\ ct.pc = "group"
    /\ ct.group[index] = "removed"
    /\ ct' = [ct EXCEPT !.file[index] = "whole", !.file[ValuesFileOf(index)] = "whole",
                        !.group[index] = "done"]

\* newCatalog: the joins, solveStaticQueries and OPEN_FILE(STATIC_QUERIES, "wb+")
OpenStaticQueries ==
    /\ ct.pc = "group"
    /\ \A index \in GroupedIndexes : ct.group[index] = "done"
    /\ ct' = IF CannotOpen(ct.file, STATIC_QUERIES)
             THEN [ct EXCEPT !.pc = "exited", !.partial = TRUE]
             ELSE [ct EXCEPT !.file[STATIC_QUERIES] = "new", !.pc = "static"]

\* newCatalog: printFormat(static_queries_f, ans, staticQueries) ...
\* fclose(staticQueries); return ans
CloseStaticQueries ==
    /\ ct.pc = "static"
    /\ ct' = [ct EXCEPT !.file[STATIC_QUERIES] = "whole", !.ans = "catalog",
                        !.built = TRUE, !.pc = "queries"]

\* main: readAndExecuteQueries(QUERIES_IN, catalog)
ReadAndExecuteQueries ==
    /\ ct.pc = "queries"
    /\ ct' = [ct EXCEPT !.ran = TRUE, !.pc = "free"]

\* main: freeCatalog(catalog): freeIndexer closes the indexes, freeCache
\* writes the cache back and the files of records are closed
FreeCatalog ==
    /\ ct.pc = "free"
    /\ ct' = [ct EXCEPT
                !.file = [path \in CatalogPaths |->
                            IF ct.file[path] = "new" THEN "whole" ELSE ct.file[path]],
                !.partial = IF ct.built THEN FALSE ELSE ct.partial,
                !.ans = "NULL", !.pc = "done"]

\* the process is ended from outside; a build is cut short if newCatalog was
\* called and freeCatalog has not finished
Interrupt ==
    /\ ct.pc \notin {"done", "exited", "killed"}
    /\ ct' = [ct EXCEPT !.partial = ct.partial \/ ct.called, !.pc = "killed"]

\* the program is started again on the files the last run left
Restart ==
    /\ ct.pc \in {"done", "exited", "killed"}
    /\ ct.runs < MaxRuns
    /\ ct' = [CatalogInit(ct.file) EXCEPT !.partial = ct.partial, !.runs = ct.runs + 1]

\* the files before the first run: none, those of a complete build, or those
\* of a complete build of which one is absent or unreadable
FirstFiles ==
    { [path \in CatalogPaths |-> "absent"], [path \in CatalogPaths |-> "whole"] }
    \cup { [path \in CatalogPaths |-> IF path = gone THEN how ELSE "whole"] :
              gone \in CatalogPaths, how \in {"absent", "unreadable"} }

InitCatalog ==
    /\ cache = getCache(1, FALSE)
    /\ ghost = GhostInit(1)
    /\ disk = InitDisk(NumPages)
    /\ ret = <<>>
    /\ op = NoOp
    /\ nops = 0
    /\ hist = <<>>
    /\ th = [t \in Threads |-> Idle]
    /\ ix = makeIndexer
    /\ ig = IdxGhostInit
    /\ lz = NULL
    /\ fm = NULL
    /\ user = NULL
    /\ dt = NULL
    /\ tm = NULL
    /\ qs = NULL
    /\ \E file \in FirstFiles : ct = CatalogInit(file)

NextCatalog ==
    /\ UNCHANGED <<cache, disk, ghost, ret, op, nops, hist, th, ix, ig, lz, fm, user,
                   dt, tm, qs>>
    /\ \/ LoadCatalog
       \/ NewCatalog
       \/ OpenFile
       \/ ParseInputs
       \/ \E index \in GroupedIndexes : GroupOpenValues(index)
       \/ \E index \in GroupedIndexes : GroupRemoveIndex(index)
       \/ \E index \in GroupedIndexes : GroupRenameIndex(index)
       \/ OpenStaticQueries
       \/ CloseStaticQueries
       \/ ReadAndExecuteQueries
       \/ FreeCatalog
       \/ Interrupt
       \/ Restart

SpecCatalog == InitCatalog /\ [][NextCatalog]_vars

\* C23: loadCatalog returns a catalog only if all 14 files can be read; if
\* one cannot, it returns NULL and has opened no catalog, and main then
\* calls newCatalog, unless the process is ended first, and runs no query
\* before newCatalog has returned.
C23_LoadProtocol ==
    /\ ct.pc # "main" /\ ~ct.called /\ ct.ans = "catalog" => ct.missing = {}
    /\ ct.pc # "main" /\ ct.missing # {}
       => /\ ~ct.opened
          /\ ct.pc \in {"newCatalog", "killed"} \/ ct.called
          /\ ct.pc \in {"queries", "free", "done"} \/ ct.ran => ct.built

\* one file of a complete build was absent, loadCatalog failed, the catalog
\* was built again and the queries were run
C23_Witness ==
    /\ ct.runs = 1
    /\ ct.missing = {COLLABORATORS_IND_VALS}
    /\ ct.built
    /\ ct.ran

\* C24: if a build was cut short before freeCatalog had closed the indexes,
\* written the cache back and closed the files, the next loadCatalog fails,
\* whatever files were there before the build.
C24_AllOrNothing ==
    ct.pc # "main" /\ ~ct.called /\ ct.ans = "catalog" => ~ct.partial

(***************************************************************************)
(* The queries of the command line (queries.c, main.c): parseQuery,        *)
(* getQueryFormat, readAndExecuteQueries and solveTask.  A line is the     *)
(* buffer after trimNewLine; the empty line is the buffer "\n".            *)
(***************************************************************************)
\* getQueryFormat: dataTypes[id], of parameterCount[id] members
QueryTypes(id) ==
    CASE id = 5 -> <<INT, DATE, DATE>>
      [] id = 6 -> <<INT, STRING_KIND>>
      [] id = 7 -> <<DATE>>
      [] id = 8 -> <<INT, DATE>>
      [] id = 9 -> <<INT>>
      [] id = 10 -> <<INT>>
      [] OTHER -> <<>>

\* getQueryFormat(id), for id > 0
getQueryFormat(id) ==
    makeFormat([k \in 1..Len(QueryTypes(id)) |-> k - 1], QueryTypes(id), <<>>, Ascii[" "])

\* query->params before parseQuery: the memory malloc returned
EmptyParams(id) == [d \in 0..(Len(QueryTypes(id)) - 1) |-> PriorMember(QueryTypes(id)[d + 1])]

\* readFormat(format, NULL, query->params): with no member it returns true;
\* with one member it calls strlen(NULL) before it tests for the untimely
\* end of the line, which ends the process or, where the call is moved
\* behind the test, is never made; with more it returns false
readFormatNull(format, ub) ==
    IF format.members = 0 THEN "true"
    ELSE IF format.members = 1 /\ ub = "crash" THEN "crash"
    ELSE "false"

\* parseQuery(str, query): the id stored in the query, and whether the
\* process was ended
parseQueryId(id, str, null, outside, ub) ==
    IF id < 11 /\ id > 0
    THEN IF null
         THEN [id |-> IF readFormatNull(getQueryFormat(id), ub) = "true" THEN id ELSE -1,
               crash |-> readFormatNull(getQueryFormat(id), ub) = "crash"]
         ELSE [id |-> IF readFormat(getQueryFormat(id), str, EmptyParams(id), outside).ok
                      THEN id ELSE -1,
               crash |-> FALSE]
    ELSE [id |-> -1, crash |-> FALSE]
parseQuery(str, outside, ub) ==
    parseQueryId(atoi(strsep(str, Ascii[" "]).temp), strsep(str, Ascii[" "]).str,
                 strsep(str, Ascii[" "]).null, outside, ub)

\* the lines of a file of queries
QueryLines ==
    { <<>>,
      Str(<<"1">>), Str(<<"1", "0", " ", "3">>), Str(<<"1", "1", " ", "3">>),
      Str(<<"0">>), Str(<<"a">>), Str(<<"9">>), Str(<<"9", " ", "5">>),
      Str(<<"9", " ", "a">>), Str(<<"9", " ", "5", " ", "1">>),
      Str(<<"9", "a", " ", "5">>),
      Str(<<"8", " ", "5">>),
      Str(<<"8", " ", "5", " ", "2", "0", "1", "5", "-", "0", "6", "-", "0", "1">>),
      Str(<<"7", " ", "2", "0", "1", "5", "-", "0", "2", "-", "3", "0">>) }
MaxQueries == 2
RECURSIVE QueryFiles(_)
QueryFiles(n) ==
    IF n = 0 THEN {<<>>}
    ELSE QueryFiles(n - 1) \cup { Append(file, line) : file \in { f \in QueryFiles(n - 1) : Len(f) = n - 1 }, line \in QueryLines }

\* readAndExecuteQueries(queryFile, catalog):
\*   file      the lines of the file
\*   queries   the ids of the queries read so far
\*   phase     "read", "execute", "done" or "crashed"
\*   task      the index of the next task of executeTasks
\*   executed  how often executeQuery was called for each task
\*   output    the tasks whose output file was opened
QueriesInit(file, outside, ub) ==
    [ file |-> file, outside |-> outside, ub |-> ub, queries |-> <<>>,
      phase |-> "read", task |-> 0,
      executed |-> [k \in 0..(Len(file) - 1) |-> 0], output |-> {} ]

\* one turn of the loop of readAndExecuteQueries: fgets, createEmptyQuery,
\* parseQuery unless the line is empty, g_array_append_val
ReadQuery ==
    /\ qs.phase = "read"
    /\ Len(qs.queries) < Len(qs.file)
    /\ qs' = IF qs.file[Len(qs.queries) + 1] = <<>>
             THEN [qs EXCEPT !.queries = Append(@, 0)]
             ELSE IF parseQuery(qs.file[Len(qs.queries) + 1], qs.outside, qs.ub).crash
                  THEN [qs EXCEPT !.phase = "crashed"]
                  ELSE [qs EXCEPT !.queries = Append(@,
                           parseQuery(qs.file[Len(qs.queries) + 1], qs.outside, qs.ub).id)]

\* readAndExecuteQueries: fgets returns NULL; executeTasks(..., solveTask, 1)
ExecuteTasks ==
    /\ qs.phase = "read"
    /\ Len(qs.queries) = Len(qs.file)
    /\ qs' = [qs EXCEPT !.phase = "execute"]

\* solveTask(taskIndex, task, state), called by the one worker of executeTasks
SolveTask ==
    /\ qs.phase = "execute"
    /\ qs.task < Len(qs.queries)
    /\ qs' = IF qs.queries[qs.task + 1] # -1
             THEN [qs EXCEPT !.output = @ \cup {qs.task}, !.executed[qs.task] = @ + 1,
                             !.task = @ + 1]
             ELSE [qs EXCEPT !.task = @ + 1]

\* the worker finds no task left and executeTasks returns
ExecuteTasksDone ==
    /\ qs.phase = "execute"
    /\ qs.task >= Len(qs.queries)
    /\ qs' = [qs EXCEPT !.phase = "done"]

InitQueries ==
    /\ cache = getCache(1, FALSE)
    /\ ghost = GhostInit(1)
    /\ disk = InitDisk(NumPages)
    /\ ret = <<>>
    /\ op = NoOp
    /\ nops = 0
    /\ hist = <<>>
    /\ th = [t \in Threads |-> Idle]
    /\ ix = makeIndexer
    /\ ig = IdxGhostInit
    /\ lz = NULL
    /\ fm = NULL
    /\ user = NULL
    /\ dt = NULL
    /\ tm = NULL
    /\ ct = NULL
    /\ \E file \in QueryFiles(MaxQueries), outside \in OutsideVals, ub \in {"crash", "moved"} :
          qs = QueriesInit(file, outside, ub)

NextQueries ==
    /\ UNCHANGED <<cache, disk, ghost, ret, op, nops, hist, th, ix, ig, lz, fm, user,
                   dt, tm, ct>>
    /\ \/ ReadQuery
       \/ ExecuteTasks
       \/ SolveTask
       \/ ExecuteTasksDone

SpecQueries == InitQueries /\ [][NextQueries]_vars

\* the id the line is to yield: 0 for the empty line, the id for a line that
\* starts with the numeral of an id in 1..10 and goes on with arguments of
\* the format of that id, -1 for every other line
IdNumerals == { PrintInt(id) : id \in 1..10 }
ArgumentsParse(id, str, null, outside) ==
    IF null THEN QueryTypes(id) = <<>>
    ELSE readFormat(getQueryFormat(id), str, EmptyParams(id), outside).ok
LineId(line, outside) ==
    IF line = <<>> THEN 0
    ELSE IF /\ strsep(line, Ascii[" "]).temp \in IdNumerals
            /\ ArgumentsParse(atoi(strsep(line, Ascii[" "]).temp),
                              strsep(line, Ascii[" "]).str,
                              strsep(line, Ascii[" "]).null, qs.outside)
         THEN atoi(strsep(line, Ascii[" "]).temp)
         ELSE -1

\* C25: every line of the file of queries yields its id: 0 if it is empty,
\* the id if it is an id in 1..10 with arguments that parse under the format
\* of that id, -1 otherwise; a query of id -1 is never executed and has no
\* output file, and every other query is executed once.
C25_QueryParsing ==
    /\ qs.phase # "crashed"
    /\ \A k \in 1..Len(qs.queries) : qs.queries[k] = LineId(qs.file[k], qs.outside)
    /\ \A k \in 0..(Len(qs.queries) - 1) :
          /\ qs.queries[k + 1] = -1 => qs.executed[k] = 0 /\ k \notin qs.output
          /\ qs.queries[k + 1] # -1 /\ qs.phase = "done" => qs.executed[k] = 1

(***************************************************************************)
(* The build of the catalog with validation (catalog.c): parseUsers,       *)
(* fillRepoIdHashTable, filterCommits and parseRepos as newCatalog calls   *)
(* them.  A row of a CSV file holds the ids the build looks at and whether *)
(* readFormat accepts it; a record of a compressed file is at the position *)
(* that is the number of records in front of it.                           *)
(***************************************************************************)
UserRow(id, valid) == [id |-> id, valid |-> valid]
RepoRow(id, owner, valid) == [id |-> id, owner |-> owner, valid |-> valid]
CommitRow(author, committer, repo, date, valid) ==
    [author |-> author, committer |-> committer, repo |-> repo, date |-> date,
     valid |-> valid]

\* getCompressedCommitDate of two rows
EarlyCommit == getCompactedDate(setDate(2015, 6, 1, 0, 0, 0))
LateCommit == getCompactedDate(setDate(2020, 1, 1, 0, 0, 0))

\* the input files
UsersFiles ==
    { << UserRow(1, TRUE) >>,
      << UserRow(1, TRUE), UserRow(3, TRUE) >>,
      << UserRow(3, FALSE), UserRow(1, TRUE) >> }
ReposFiles ==
    { << RepoRow(1, 1, TRUE) >>,
      << RepoRow(1, 1, TRUE), RepoRow(3, 3, TRUE) >>,
      << RepoRow(1, 3, TRUE), RepoRow(3, 1, FALSE), RepoRow(5, 1, TRUE) >>,
      << RepoRow(1, 1, TRUE), RepoRow(5, 1, TRUE), RepoRow(7, 1, TRUE) >> }
CommitsFiles ==
    { << CommitRow(1, 1, 1, EarlyCommit, TRUE) >>,
      << CommitRow(1, 3, 1, LateCommit, TRUE), CommitRow(1, 1, 3, EarlyCommit, TRUE),
         CommitRow(3, 3, 3, EarlyCommit, TRUE) >>,
      << CommitRow(1, 1, 5, EarlyCommit, TRUE), CommitRow(1, 1, 9, EarlyCommit, TRUE),
         CommitRow(3, 1, 1, LateCommit, TRUE) >>,
      << CommitRow(1, 1, 7, EarlyCommit, TRUE), CommitRow(1, 1, 5, LateCommit, FALSE),
         CommitRow(1, 1, 1, EarlyCommit, TRUE), CommitRow(1, 1, 5, EarlyCommit, TRUE) >> }
RepoIdsOf(repos) == { repos[k].id : k \in 1..Len(repos) }

\* newCatalog up to the first pthread_create:
\*   users, repos, commits  the rows of the input files
\*   pc, row                the loop that runs and the row it reads next
\*   usersById, reposById   the indexers
\*   compressed_users, compressed_commits, compressed_repos
\*                          the records printed to the compressed files
\*   repoIds                the keys of the hash table repoIds
\*   repoLastCommit         the hash table repoLastCommit, 0 for no entry
\*   outcomes               what the build made of each sortIndexer
BuildInit(users, repos, commits) ==
    [ users |-> users, repos |-> repos, commits |-> commits,
      pc |-> "parseUsers", row |-> 1,
      usersById |-> makeIndexer, reposById |-> makeIndexer,
      compressed_users |-> <<>>, compressed_commits |-> <<>>,
      compressed_repos |-> <<>>,
      repoIds |-> {},
      repoLastCommit |-> [id \in RepoIdsOf(repos) \cup {commits[k].repo : k \in 1..Len(commits)} |-> 0],
      outcomes |-> {} ]

\* parseUsers: one turn of the loop
ParseUsersRow ==
    /\ ct.pc = "parseUsers"
    /\ ct.row <= Len(ct.users)
    /\ ct' = IF ct.users[ct.row].valid
             THEN [ct EXCEPT
                     !.compressed_users = Append(@, ct.users[ct.row]),
                     !.usersById = insertIntoIndex(@, ct.users[ct.row].id,
                                                   Len(ct.compressed_users)),
                     !.row = @ + 1]
             ELSE [ct EXCEPT !.row = @ + 1]

\* what sortIndexer leaves of an indexer of the build
SortedIndexers(i) ==
    UNION { { [i |-> sortIndexer(i, ub, sorted), ub |-> ub] :
                sorted \in UNION { AllSorted(RunsInBuffer(i, ub, junk)) : junk \in JunkLines(ub) } } :
            ub \in UBOutcomes(i) }

\* parseUsers: sortIndexer(usersById, cache) after the loop
SortUsersById ==
    /\ ct.pc = "parseUsers"
    /\ ct.row > Len(ct.users)
    /\ \E s \in SortedIndexers(ct.usersById) :
          ct' = [ct EXCEPT !.usersById = s.i, !.outcomes = @ \cup {s.ub},
                           !.pc = IF s.i.crashed THEN "crashed" ELSE "fillRepoIdHashTable"]

\* fillRepoIdHashTable(repos, repoIds, validate)
FillRepoIdHashTable ==
    /\ ct.pc = "fillRepoIdHashTable"
    /\ ct' = [ct EXCEPT
                !.repoIds = { ct.repos[k].id : k \in { j \in 1..Len(ct.repos) : ct.repos[j].valid } },
                !.pc = "filterCommits", !.row = 1]

\* filterCommits: the test of a row that readFormat accepted; i is usersById
\* after the first lookup
KeepsCommit(i, commit, repoIds) ==
    /\ retrieveKey(i, commit.author).res # -1
    /\ \/ commit.author = commit.committer
       \/ retrieveKey(retrieveKey(i, commit.author).i, commit.committer).res # -1
    /\ commit.repo \in repoIds

\* filterCommits: one turn of the loop
FilterCommitsRow ==
    /\ ct.pc = "filterCommits"
    /\ ct.row <= Len(ct.commits)
    /\ ct' = IF ct.commits[ct.row].valid
                /\ KeepsCommit(ct.usersById, ct.commits[ct.row], ct.repoIds)
             THEN [ct EXCEPT
                     !.usersById = flushIndex(@),
                     !.compressed_commits = Append(@, ct.commits[ct.row]),
                     !.repoLastCommit[ct.commits[ct.row].repo] =
                         IF @ = 0 \/ @ < ct.commits[ct.row].date
                         THEN ct.commits[ct.row].date ELSE @,
                     !.row = @ + 1]
             ELSE [ct EXCEPT
                     !.usersById = IF ct.commits[ct.row].valid THEN flushIndex(@) ELSE @,
                     !.row = @ + 1]

\* filterCommits returns and newCatalog starts parseRepos
FilterCommitsDone ==
    /\ ct.pc = "filterCommits"
    /\ ct.row > Len(ct.commits)
    /\ ct' = [ct EXCEPT !.pc = "parseRepos", !.row = 1]

\* parseRepos: one turn of the loop
ParseReposRow ==
    /\ ct.pc = "parseRepos"
    /\ ct.row <= Len(ct.repos)
    /\ ct' = IF /\ ct.repos[ct.row].valid
                /\ retrieveKey(ct.usersById, ct.repos[ct.row].owner).res # -1
                /\ ct.repoLastCommit[ct.repos[ct.row].id] # 0
             THEN [ct EXCEPT
                     !.usersById = flushIndex(@),
                     !.compressed_repos = Append(@, ct.repos[ct.row]),
                     !.reposById = insertIntoIndex(@, ct.repos[ct.row].id,
                                                   Len(ct.compressed_repos)),
                     !.row = @ + 1]
             ELSE [ct EXCEPT
                     !.usersById = IF ct.repos[ct.row].valid THEN flushIndex(@) ELSE @,
                     !.row = @ + 1]

\* parseRepos: sortIndexerWrapper(reposById, c) after the loop, and the
\* return of newCatalog
SortReposById ==
    /\ ct.pc = "parseRepos"
    /\ ct.row > Len(ct.repos)
    /\ \E s \in SortedIndexers(ct.reposById) :
          ct' = [ct EXCEPT !.reposById = s.i, !.outcomes = @ \cup {s.ub},
                           !.pc = IF s.i.crashed THEN "crashed" ELSE "built"]

InitBuild ==
    /\ cache = getCache(1, FALSE)
    /\ ghost = GhostInit(1)
    /\ disk = InitDisk(NumPages)
    /\ ret = <<>>
    /\ op = NoOp
    /\ nops = 0
    /\ hist = <<>>
    /\ th = [t \in Threads |-> Idle]
    /\ ix = makeIndexer
    /\ ig = IdxGhostInit
    /\ lz = NULL
    /\ fm = NULL
    /\ user = NULL
    /\ dt = NULL
    /\ tm = NULL
    /\ qs = NULL
    /\ \E users \in UsersFiles, repos \in ReposFiles, commits \in CommitsFiles :
          ct = BuildInit(users, repos, commits)

NextBuild ==
    /\ UNCHANGED <<cache, disk, ghost, ret, op, nops, hist, th, ix, ig, lz, fm, user,
                   dt, tm, qs>>
    /\ \/ ParseUsersRow
       \/ SortUsersById
       \/ FillRepoIdHashTable
       \/ FilterCommitsRow
       \/ FilterCommitsDone
       \/ ParseReposRow
       \/ SortReposById

SpecBuild == InitBuild /\ [][NextBuild]_vars

\* the entries of an indexer
EntriesOf(i) == { i.index[a] : a \in 1..i.elem_no }
\* the commits of the compressed file refer to users of usersById and to
\* valid rows of the repos file
CommitsRefer ==
    \A k \in 1..Len(ct.compressed_commits) :
        /\ ct.compressed_commits[k].author \in KeysOf(ct.usersById.index)
        /\ ct.compressed_commits[k].committer \in KeysOf(ct.usersById.index)
        /\ \E j \in 1..Len(ct.repos) :
              ct.repos[j].valid /\ ct.repos[j].id = ct.compressed_commits[k].repo
\* the entries of reposById are repos of the compressed file whose owner is
\* in usersById and that have a commit in the compressed file
ReposRefer ==
    \A e \in EntriesOf(ct.reposById) :
        /\ e.value >= 0 /\ e.value < Len(ct.compressed_repos)
        /\ ct.compressed_repos[e.value + 1].id = e.key
        /\ ct.compressed_repos[e.value + 1].owner \in KeysOf(ct.usersById.index)
        /\ \E k \in 1..Len(ct.compressed_commits) : ct.compressed_commits[k].repo = e.key

\* C26: after a build with validation, every commit of the compressed file
\* has an author and a committer that are keys of usersById and a repo id of
\* a valid row of the repos file; every repo of reposById has an owner that
\* is a key of usersById and a commit of the compressed file with its id.
C26_Referential == ct.pc = "built" => CommitsRefer /\ ReposRefer

(***************************************************************************)
(* The rows of the queries 5, 6, 9 and 10 (querySolver.c): the pairs of a  *)
(* hash table from user ids to counts are copied to an array in the order  *)
(* g_hash_table_foreach visits them, which glib leaves open, sorted with   *)
(* comparePair, and the first N are printed.  g_array_sort is the stable   *)
(* merge sort of glib, which takes the left element when the comparison    *)
(* is not positive.                                                        *)
(***************************************************************************)
KeyValuePair(key, value) == [key |-> key, value |-> value]

\* comparePair(pair1, pair2)
comparePair(p1, p2) == IF p1.value < p2.value THEN 1 ELSE 0

\* g_array_sort(pairs, comparePair)
RECURSIVE MergePairs(_, _)
MergePairs(b1, b2) ==
    IF b1 = <<>> THEN b2
    ELSE IF b2 = <<>> THEN b1
    ELSE IF comparePair(Head(b1), Head(b2)) <= 0
         THEN <<Head(b1)>> \o MergePairs(Tail(b1), b2)
         ELSE <<Head(b2)>> \o MergePairs(b1, Tail(b2))
RECURSIVE g_array_sort(_)
g_array_sort(pairs) ==
    IF Len(pairs) <= 1 THEN pairs
    ELSE MergePairs(g_array_sort(SubSeq(pairs, 1, Len(pairs) \div 2)),
                    g_array_sort(SubSeq(pairs, Len(pairs) \div 2 + 1, Len(pairs))))

\* the orders g_hash_table_foreach can visit the keys of t in
VisitOrders(t) ==
    { order \in [1..Cardinality(DOMAIN t) -> DOMAIN t] :
        \A a, b \in 1..Cardinality(DOMAIN t) : a # b => order[a] # order[b] }

\* getHashTableOrganizedyValues(t), the keys visited in the given order
getHashTableOrganizedyValues(t, order) ==
    g_array_sort([a \in 1..Len(order) |-> KeyValuePair(order[a], t[order[a]])])

\* the hash tables of the queries, from user ids to counts
MaxUserId == 3
MaxCount == 2
CountTables == UNION { [ids -> 1..MaxCount] : ids \in SUBSET (1..MaxUserId) }

\* queryFive, querySix, queryNine, queryTen from the hash table on:
\*   t      the hash table
\*   N      the number of rows asked for
\*   pairs  the array of pairs
\*   rows   the rows printed
TopNInit(t, N) == [t |-> t, N |-> N, phase |-> "table", pairs |-> <<>>, rows |-> <<>>]

\* GArray* pairs = getHashTableOrganizedyValues(users)
GetHashTableOrganizedyValues ==
    /\ qs.phase = "table"
    /\ \E order \in VisitOrders(qs.t) :
          qs' = [qs EXCEPT !.pairs = getHashTableOrganizedyValues(qs.t, order),
                           !.phase = "pairs"]

\* for (int i = 0; i < MIN(N, differentUsers); i++): one row
PrintRow ==
    /\ qs.phase = "pairs"
    /\ Len(qs.rows) < Min(qs.N, Cardinality(DOMAIN qs.t))
    /\ qs' = [qs EXCEPT !.rows = Append(@, qs.pairs[Len(qs.rows) + 1])]

\* the loop ends
PrintRowsDone ==
    /\ qs.phase = "pairs"
    /\ Len(qs.rows) >= Min(qs.N, Cardinality(DOMAIN qs.t))
    /\ qs' = [qs EXCEPT !.phase = "printed"]

InitTopN ==
    /\ cache = getCache(1, FALSE)
    /\ ghost = GhostInit(1)
    /\ disk = InitDisk(NumPages)
    /\ ret = <<>>
    /\ op = NoOp
    /\ nops = 0
    /\ hist = <<>>
    /\ th = [t \in Threads |-> Idle]
    /\ ix = makeIndexer
    /\ ig = IdxGhostInit
    /\ lz = NULL
    /\ fm = NULL
    /\ user = NULL
    /\ dt = NULL
    /\ tm = NULL
    /\ ct = NULL
    /\ \E t \in CountTables, N \in 1..MaxUserId : qs = TopNInit(t, N)

NextTopN ==
    /\ UNCHANGED <<cache, disk, ghost, ret, op, nops, hist, th, ix, ig, lz, fm, user,
                   dt, tm, ct>>
    /\ \/ GetHashTableOrganizedyValues
       \/ PrintRow
       \/ PrintRowsDone

SpecTopN == InitTopN /\ [][NextTopN]_vars

\* the rows are in descending order of count
DescendingCounts ==
    \A a, b \in 1..Len(qs.rows) : a < b => qs.rows[a].value >= qs.rows[b].value

\* C27: the rows of a top-N query are in descending order of count, and two
\* users of equal count are in increasing order of user id.
C27_TopNOrder ==
    /\ DescendingCounts
    /\ \A a, b \in 1..Len(qs.rows) :
          a < b /\ qs.rows[a].value = qs.rows[b].value => qs.rows[a].key < qs.rows[b].key

(***************************************************************************)
(* Query 7 (catalog.c, querySeven): the repos whose last commit is before  *)
(* a date, read from reposByLastCommitDate, whose keys are the compacted   *)
(* dates of the last commits and whose values are the positions of the     *)
(* repos in the file of repos.                                             *)
(***************************************************************************)
\* the dates of the last commits and of the queries
LastCommitDates ==
    { setDate(2019, 12, 31, 23, 59, 59), setDate(2020, 1, 1, 0, 0, 0),
      setDate(2020, 1, 1, 0, 0, 1), setDate(2022, 1, 1, 0, 0, 0) }
CutoffDates ==
    { setDate(2020, 1, 1, 0, 0, 0), setDate(2020, 1, 2, 0, 0, 0),
      setDate(2019, 1, 1, 0, 0, 0), setDate(2021, 1, 1, 0, 0, 0) }
MaxRepos == 3
RECURSIVE RepoFilesOf(_)
RepoFilesOf(n) ==
    IF n = 0 THEN {<<>>}
    ELSE RepoFilesOf(n - 1)
         \cup { Append(file, date) : file \in { f \in RepoFilesOf(n - 1) : Len(f) = n - 1 },
                                     date \in LastCommitDates }

\* parseRepos: the LINEs inserted into reposByLastCommitDate for the repos
\* of the file, the repo at position p being the p-th of the file
LastCommitLines(file) ==
    [p \in 1..Len(file) |-> LINE(getCompactedDate(file[p]), p - 1)]

\* reposByLastCommitDate as parseIndexer opens it on a sorted index file
LoadedIndexers(file) ==
    { [makeIndexer EXCEPT !.index = sorted, !.elem_no = Len(sorted)] :
         sorted \in SortedPerms(LastCommitLines(file)) }

\* retrieveEmbeddedValue(i, key_order, c)
retrieveEmbeddedValue(i, key_order) ==
    IF key_order < 0 \/ key_order >= i.elem_no THEN 0
    ELSE i.index[key_order + 1].value

\* the key querySeven looks up when it takes the end of the day of the date
querySevenKeyEndOfDay(date) ==
    getCompactedDate(setDate(date.year, date.month, date.day, 23, 59, 59))

\* the key querySeven looks up: (pos_t)getCompactedDate(date)
querySevenKey(date) == getCompactedDate(date)

\* querySeven(catalog, date, stream):
\*   file   the last commit dates of the repos of the file of repos
\*   reposByLastCommitDate  the indexer
\*   date   the date of the query
\*   last   the bound of the loop, once it is computed
\*   rows   the positions of the repos printed, in the order of the lines
QuerySevenInit(file, i, date) ==
    [ file |-> file, reposByLastCommitDate |-> i, date |-> date,
      phase |-> "start", last |-> 0, rows |-> <<>> ]

\* int last = retrieveKeyLowerBound(catalog->reposByLastCommitDate, ...)
QuerySevenLast ==
    /\ qs.phase = "start"
    /\ qs' = [qs EXCEPT
                !.last = retrieveKeyLowerBound(qs.reposByLastCommitDate,
                                               querySevenKey(qs.date)).res,
                !.reposByLastCommitDate =
                    retrieveKeyLowerBound(qs.reposByLastCommitDate,
                                          querySevenKey(qs.date)).i,
                !.phase = "loop"]

\* one turn of the loop: retrieveValueAsLazy and the fprintf of the repo
QuerySevenRow ==
    /\ qs.phase = "loop"
    /\ Len(qs.rows) < qs.last
    /\ qs' = [qs EXCEPT
                !.rows = Append(@, retrieveEmbeddedValue(qs.reposByLastCommitDate, Len(qs.rows)))]

\* the loop ends
QuerySevenDone ==
    /\ qs.phase = "loop"
    /\ Len(qs.rows) >= qs.last
    /\ qs' = [qs EXCEPT !.phase = "done"]

InitQuerySeven ==
    /\ cache = getCache(1, FALSE)
    /\ ghost = GhostInit(1)
    /\ disk = InitDisk(NumPages)
    /\ ret = <<>>
    /\ op = NoOp
    /\ nops = 0
    /\ hist = <<>>
    /\ th = [t \in Threads |-> Idle]
    /\ ix = makeIndexer
    /\ ig = IdxGhostInit
    /\ lz = NULL
    /\ fm = NULL
    /\ user = NULL
    /\ dt = NULL
    /\ tm = NULL
    /\ ct = NULL
    /\ \E file \in RepoFilesOf(MaxRepos), date \in CutoffDates :
          \E i \in LoadedIndexers(file) : qs = QuerySevenInit(file, i, date)

NextQuerySeven ==
    /\ UNCHANGED <<cache, disk, ghost, ret, op, nops, hist, th, ix, ig, lz, fm, user,
                   dt, tm, ct>>
    /\ \/ QuerySevenLast
       \/ QuerySevenRow
       \/ QuerySevenDone

SpecQuerySeven == InitQuerySeven /\ [][NextQuerySeven]_vars

MaxFd == 5
\* entries inserted into the index that shares the cache
MaxShared == 2
Fds == 1..MaxFd

\* fopen / tmpfile: the lowest descriptor that is not open
fopen(open) == CHOOSE f \in Fds \ open : \A g \in Fds \ open : f <= g

\* the index file of the second indexer, grouped: one key, its block at 0
OtherIndex == <<LINE(3, 0)>>

\* the bytes of an index file, LINE after LINE
RECURSIVE LinesBytes(_)
LinesBytes(lines) ==
    IF lines = <<>> THEN <<>>
    ELSE ToBytes(Head(lines).key, SizeofPosT) \o ToBytes(Head(lines).value, SizeofPosT)
         \o LinesBytes(Tail(lines))

\* a page of the cache: the file as LINEs and as bytes when it was loaded
Page(fd, lines, bytes) == [file_desc |-> fd, lines |-> lines, bytes |-> bytes]

\* g_hash_table_lookup(c->posLinePairs, &key) for the first page of fd
Cached(c, fd) == \E p \in c : p.file_desc = fd
CachedPage(c, fd) == CHOOSE p \in c : p.file_desc = fd

\* getCacheLine(c, fileno(file), 0): a page that is cached is used as it is,
\* another is read from the file
getCacheLinePage(c, fd, lines, bytes) ==
    IF Cached(c, fd) THEN CachedPage(c, fd) ELSE Page(fd, lines, bytes)

LoadPage(c, fd, lines, bytes) ==
    IF Cached(c, fd) THEN c ELSE c \cup {Page(fd, lines, bytes)}

\* refreshCacheFile(c, file): the pages of fileno(file) are dropped
refreshCachePages(c, fd) == { p \in c : p.file_desc # fd }

\* flushIndex(i, c) on the cache: the pages of the index file are dropped if
\* the index changed since the last refresh
flushIndexPages(i, c) ==
    IF i.changed_since_cache_refresh THEN refreshCachePages(c, i.fd) ELSE c

\* the indexer as its lookups see it: the LINEs of the page of the index
IndexView(i, c) ==
    [flushIndex(i) EXCEPT
        !.index = getCacheLinePage(flushIndexPages(i, c), i.fd, i.index, <<>>).lines]

\* the cache after a lookup of the index that read a LINE
IndexLoaded(i, c) ==
    IF i.elem_no = 0 THEN flushIndexPages(i, c)
    ELSE LoadPage(flushIndexPages(i, c), i.fd, i.index, <<>>)

\* retrieveEmbeddedKey(i, key_order, c)
retrieveEmbeddedKey(i, key_order) ==
    IF key_order < 0 \/ key_order >= i.elem_no THEN 0
    ELSE i.index[key_order + 1].key

\* getGroupSize(i, group, c): getInt(c, i->values, group)
getGroupSize(i, group, c) ==
    ReadAt(getCacheLinePage(c, i.values_fd, <<>>, i.values).bytes, group, SizeofInt)

\* getGroupElem(i, group, elem, c)
getGroupElem(i, group, elem, c) ==
    ReadAt(getCacheLinePage(c, i.values_fd, <<>>, i.values).bytes,
           group + SizeofInt + SizeofPosT * elem, SizeofPosT)

\* the result of a lookup and the result it has on the files as they are
CohGhost(name, res, want) == [name |-> name, res |-> res, want |-> want]

\* makeIndexer(index_file, ...): OPEN_FILE(index_file, "wb+"); named is
\* whether index_name is set
makeIndexerFile(fd, named) ==
    makeIndexer @@ [fd |-> fd, values_fd |-> NULL, index_name |-> named]

CohInsertIntoIndex(key, value) ==
    /\ ~ix.grouped
    /\ ix.elem_no < MaxShared
    /\ ix' = insertIntoIndex(ix, key, value)
    /\ ig' = CohGhost("insertIntoIndex", 0, 0)
    /\ UNCHANGED <<cache, disk>>

CohSortIndexer ==
    /\ ~ix.grouped
    /\ \E ub \in UBOutcomes(ix) :
          \E junk \in JunkLines(ub) :
             \E sorted \in AllSorted(RunsInBuffer(ix, ub, junk)) :
                ix' = sortIndexer(ix, ub, sorted)
    /\ ig' = CohGhost("sortIndexer", 0, 0)
    /\ UNCHANGED <<cache, disk>>

\* groupIndexer(i, value_file, removeDuplicateVals, c): out and dest are
\* opened, the index file is closed, and dest becomes the index file: as it
\* is, or closed, renamed and opened again
CohGroupIndexer(removeDuplicateVals) ==
    /\ ~ix.grouped
    /\ Cardinality(Fds \ disk.open) >= 2
    /\ LET out == fopen(disk.open)
           dest == fopen(disk.open \cup {out})
           closed == (disk.open \cup {out}) \ {ix.fd}
           index == IF ix.index_name THEN fopen(closed) ELSE dest
       IN /\ ix' = [groupIndexer(ix, removeDuplicateVals) EXCEPT
                       !.fd = index, !.values_fd = out]
          /\ disk' = [disk EXCEPT !.open = closed \cup {index}]
    /\ ig' = CohGhost("groupIndexer", 0, 0)
    /\ UNCHANGED cache

CohRetrieveKey(key) ==
    /\ ix' = flushIndex(ix)
    /\ cache' = IndexLoaded(ix, cache)
    /\ ig' = CohGhost("retrieveKey", retrieveKey(IndexView(ix, cache), key).res,
                      retrieveKey([ix EXCEPT !.cached = {}], key).res)
    /\ UNCHANGED disk

CohRetrieveKeyLowerBound(key) ==
    /\ ix' = flushIndex(ix)
    /\ cache' = IndexLoaded(ix, cache)
    /\ ig' = CohGhost("retrieveKeyLowerBound",
                      retrieveKeyLowerBound(IndexView(ix, cache), key).res,
                      retrieveKeyLowerBound([ix EXCEPT !.cached = {}], key).res)
    /\ UNCHANGED disk

CohRetrieveEmbeddedKey(key_order) ==
    /\ key_order < ix.elem_no
    /\ ix' = flushIndex(ix)
    /\ cache' = IndexLoaded(ix, cache)
    /\ ig' = CohGhost("retrieveEmbeddedKey",
                      retrieveEmbeddedKey(IndexView(ix, cache), key_order),
                      retrieveEmbeddedKey(ix, key_order))
    /\ UNCHANGED disk

CohRetrieveEmbeddedValue(key_order) ==
    /\ key_order < ix.elem_no
    /\ ix' = flushIndex(ix)
    /\ cache' = IndexLoaded(ix, cache)
    /\ ig' = CohGhost("retrieveEmbeddedValue",
                      retrieveEmbeddedValue(IndexView(ix, cache), key_order),
                      retrieveEmbeddedValue(ix, key_order))
    /\ UNCHANGED disk

\* the size of the first group
CohGetGroupSize ==
    /\ ix.grouped /\ ix.elem_no > 0
    /\ cache' = LoadPage(cache, ix.values_fd, <<>>, ix.values)
    /\ ig' = CohGhost("getGroupSize", getGroupSize(ix, ix.index[1].value, cache),
                      BlockCount(ix.values, ix.index[1].value))
    /\ UNCHANGED <<ix, disk>>

\* the first element of the first group
CohGetGroupElem ==
    /\ ix.grouped /\ ix.elem_no > 0
    /\ cache' = LoadPage(cache, ix.values_fd, <<>>, ix.values)
    /\ ig' = CohGhost("getGroupElem", getGroupElem(ix, ix.index[1].value, 0, cache),
                      BlockValues(ix.values, ix.index[1].value)[1])
    /\ UNCHANGED <<ix, disk>>

\* parseGroupedIndexer of the second indexer: its index file is opened
OtherParse ==
    /\ disk.other = "closed"
    /\ Cardinality(Fds \ disk.open) >= 3
    /\ disk' = [disk EXCEPT !.other = "open", !.other_fd = fopen(disk.open),
                            !.open = @ \cup {fopen(disk.open)}]
    /\ ig' = CohGhost("parseGroupedIndexer", 0, 0)
    /\ UNCHANGED <<ix, cache>>

\* retrieveKey on the second indexer: the page of its index file is loaded
OtherRetrieveKey ==
    /\ disk.other = "open"
    /\ cache' = LoadPage(cache, disk.other_fd, OtherIndex, LinesBytes(OtherIndex))
    /\ ig' = CohGhost("retrieveKeyOther", 0, 0)
    /\ UNCHANGED <<ix, disk>>

\* freeIndexer of the second indexer: flushIndex, on an index that has not
\* changed, and fclose(i->index)
OtherFree ==
    /\ disk.other = "open"
    /\ disk' = [disk EXCEPT !.other = "freed", !.open = @ \ {disk.other_fd}]
    /\ ig' = CohGhost("freeIndexer", 0, 0)
    /\ UNCHANGED <<ix, cache>>

InitCoherence ==
    /\ cache = {}
    /\ \E named \in BOOLEAN : ix = makeIndexerFile(fopen({}), named)
    /\ disk = [open |-> {fopen({})}, other |-> "closed", other_fd |-> NULL]
    /\ ig = CohGhost("none", 0, 0)
    /\ ghost = NULL
    /\ ret = NULL
    /\ op = NULL
    /\ nops = NULL
    /\ hist = NULL
    /\ th = NULL
    /\ lz = NULL
    /\ fm = NULL
    /\ user = NULL
    /\ OthersInit

NextCoherence ==
    /\ ~ix.crashed
    /\ UNCHANGED <<ghost, ret, op, nops, hist, th, lz, fm, user, others>>
    /\ \/ \E key \in Keys, value \in Values : CohInsertIntoIndex(key, value)
       \/ CohSortIndexer
       \/ \E removeDuplicateVals \in BOOLEAN : CohGroupIndexer(removeDuplicateVals)
       \/ \E key \in LookupKeys : CohRetrieveKey(key)
       \/ \E key \in LookupKeys : CohRetrieveKeyLowerBound(key)
       \/ \E key_order \in 0..(MaxShared - 1) : CohRetrieveEmbeddedKey(key_order)
       \/ \E key_order \in 0..(MaxShared - 1) : CohRetrieveEmbeddedValue(key_order)
       \/ CohGetGroupSize
       \/ CohGetGroupElem
       \/ OtherParse
       \/ OtherRetrieveKey
       \/ OtherFree

SpecCoherence == InitCoherence /\ [][NextCoherence]_vars

IndexLookups ==
    {"retrieveKey", "retrieveKeyLowerBound", "retrieveEmbeddedKey", "retrieveEmbeddedValue"}
GroupReads == {"getGroupSize", "getGroupElem"}

\* C29: every lookup of the index and every read of a group returns what
\* the index file and the values file hold, never what a page held that was
\* cached before the files were written.
C29_Coherent == ig.name \in IndexLookups \cup GroupReads => ig.res = ig.want

(***************************************************************************)
(* The threads of newCatalog.  Each thread runs the calls its function     *)
(* makes on the indexers, in the order of the code; a call on an indexer   *)
(* begins and ends in two steps, so that calls of two threads overlap.     *)
(***************************************************************************)
\* rows of each input file
MaxBuildRows == 1

\* the threads, named by the function they run
T_MAIN == "newCatalog"
T_USERS == "parseUsers"
T_REPOS == "parseRepos"
T_REPOSBYID == "sort reposById"
T_REPOSBYDATE == "sort reposByLastCommitDate"
T_COMMITSBYREPO == "sort, group commitsByRepo"
T_COLLABORATORS == "sort, group collaborators"
BuildThreads ==
    {T_MAIN, T_USERS, T_REPOS, T_REPOSBYID, T_REPOSBYDATE, T_COMMITSBYREPO, T_COLLABORATORS}

IndexerOps == {"insertIntoIndex", "sortIndexer", "groupIndexer", "retrieveKey"}
WriteOps == {"insertIntoIndex", "sortIndexer", "groupIndexer"}

Instr(o, x) == [op |-> o, x |-> x]

\* the calls of the turns of a loop, one turn after the other
RECURSIVE Turns(_)
Turns(calls) == IF calls = <<>> THEN <<>> ELSE Head(calls) \o Turns(Tail(calls))

\* parseUsers: the loop over the rows, then sortIndexer(usersById)
parseUsersRow(row) == <<Instr("insertIntoIndex", "usersById")>>
parseUsersCalls(in) ==
    Turns([a \in 1..Len(in.users) |-> parseUsersRow(in.users[a])]) \o <<Instr("sortIndexer", "usersById")>>

\* filterCommits: a row is true when its author is not its committer
filterCommitsRow(validate, row) ==
    IF ~validate THEN <<>>
    ELSE <<Instr("retrieveKey", "usersById")>>
         \o (IF row THEN <<Instr("retrieveKey", "usersById")>> ELSE <<>>)
filterCommitsCalls(in) ==
    Turns([a \in 1..Len(in.commits) |-> filterCommitsRow(in.validate, in.commits[a])])

\* parseRepos: the loop over the rows, the two sorting threads, the sort
\* and the group of reposByLanguage, the joins
parseReposRow(validate, row) ==
    (IF validate THEN <<Instr("retrieveKey", "usersById")>> ELSE <<>>)
    \o <<Instr("insertIntoIndex", "reposById"),
         Instr("insertIntoIndex", "reposByLastCommitDate"),
         Instr("insertIntoIndex", "reposByLanguage")>>
parseReposCalls(in) ==
    Turns([a \in 1..Len(in.repos) |-> parseReposRow(in.validate, in.repos[a])])
    \o <<Instr("pthread_create", T_REPOSBYID),
         Instr("pthread_create", T_REPOSBYDATE),
         Instr("sortIndexer", "reposByLanguage"),
         Instr("groupIndexer", "reposByLanguage"),
         Instr("pthread_join", T_REPOSBYID),
         Instr("pthread_join", T_REPOSBYDATE)>>

\* parseCommits: the loop over the rows, the two threads that sort and
\* group, the sort of commitsByDate, the joins
parseCommitsRow(row) ==
    <<Instr("insertIntoIndex", "commitsByDate"),
      Instr("insertIntoIndex", "commitsByRepo"),
      Instr("retrieveKey", "usersById"),
      Instr("insertIntoIndex", "collaborators")>>
    \o (IF row THEN <<Instr("retrieveKey", "usersById"),
                      Instr("insertIntoIndex", "collaborators")>>
        ELSE <<>>)
parseCommitsCalls(in) ==
    Turns([a \in 1..Len(in.commits) |-> parseCommitsRow(in.commits[a])])
    \o <<Instr("pthread_create", T_COMMITSBYREPO),
         Instr("pthread_create", T_COLLABORATORS),
         Instr("sortIndexer", "commitsByDate"),
         Instr("pthread_join", T_COMMITSBYREPO),
         Instr("pthread_join", T_COLLABORATORS)>>

\* newCatalog from the first pthread_create to the last pthread_join
newCatalogCalls(in) ==
    <<Instr("pthread_create", T_USERS), Instr("pthread_join", T_USERS)>>
    \o filterCommitsCalls(in)
    \o <<Instr("pthread_create", T_REPOS)>>
    \o parseCommitsCalls(in)
    \o <<Instr("pthread_join", T_REPOS)>>

\* sequence(arg_list) of each thread
sequence(t, in) ==
    CASE t = T_MAIN -> newCatalogCalls(in)
      [] t = T_USERS -> parseUsersCalls(in)
      [] t = T_REPOS -> parseReposCalls(in)
      [] t = T_REPOSBYID -> <<Instr("sortIndexer", "reposById")>>
      [] t = T_REPOSBYDATE -> <<Instr("sortIndexer", "reposByLastCommitDate")>>
      [] t = T_COMMITSBYREPO -> <<Instr("sortIndexer", "commitsByRepo"),
                                  Instr("groupIndexer", "commitsByRepo")>>
      [] t = T_COLLABORATORS -> <<Instr("sortIndexer", "collaborators"),
                                  Instr("groupIndexer", "collaborators")>>

BuildIndexers ==
    {"usersById", "reposById", "commitsByRepo", "reposByLastCommitDate",
     "reposByLanguage", "commitsByDate", "collaborators"}

\* the rows of a file that pass readFormat
RowsUpTo(n) == UNION {[1..m -> BOOLEAN] : m \in 0..n}
RowCounts(n) == {[a \in 1..m |-> TRUE] : m \in 0..n}

BuildInputs ==
    [validate : BOOLEAN, users : RowCounts(MaxBuildRows), repos : RowCounts(MaxBuildRows),
     commits : RowsUpTo(MaxBuildRows)]

\* newCatalog after the makeIndexer calls: only its own thread runs; calls
\* holds, for each thread, the calls it has still to make
ThreadsInit(in) ==
    [ calls |-> [t \in BuildThreads |-> sequence(t, in)],
      busy |-> [t \in BuildThreads |-> FALSE],
      alive |-> [t \in BuildThreads |-> IF t = T_MAIN THEN "running" ELSE "none"],
      joined |-> {},
      sorter |-> [x \in BuildIndexers |-> "none"] ]

Running(t) == th.alive[t] = "running" /\ th.calls[t] # <<>>
Current(t) == Head(th.calls[t])

\* the thread enters a call on an indexer
BeginCall(t) ==
    /\ Running(t) /\ ~th.busy[t]
    /\ Current(t).op \in IndexerOps
    /\ th' = [th EXCEPT !.busy[t] = TRUE]

\* the call returns
EndCall(t) ==
    /\ Running(t) /\ th.busy[t]
    /\ th' = [th EXCEPT !.busy[t] = FALSE, !.calls[t] = Tail(@),
                        !.sorter[Current(t).x] =
                            IF Current(t).op = "sortIndexer" THEN t ELSE @]

\* pthread_create(&thread, NULL, sequence, ...)
PthreadCreate(t) ==
    /\ Running(t)
    /\ Current(t).op = "pthread_create"
    /\ th' = [th EXCEPT !.alive[Current(t).x] = "running", !.calls[t] = Tail(@)]

\* pthread_join returns at once
pthread_join_early(thread) == TRUE

\* pthread_join(thread, NULL) returns when the thread has ended
pthread_join(thread) == th.alive[thread] = "done"

PthreadJoin(t) ==
    /\ Running(t)
    /\ Current(t).op = "pthread_join"
    /\ pthread_join(Current(t).x)
    /\ th' = [th EXCEPT !.joined = @ \cup {Current(t).x}, !.calls[t] = Tail(@)]

\* sequence returns: the thread ends
SequenceReturns(t) ==
    /\ th.alive[t] = "running" /\ th.calls[t] = <<>>
    /\ th' = [th EXCEPT !.alive[t] = "done"]

InitThreads ==
    /\ \E in \in BuildInputs : th = ThreadsInit(in)
    /\ cache = NULL
    /\ disk = NULL
    /\ ghost = NULL
    /\ ret = NULL
    /\ op = NULL
    /\ nops = NULL
    /\ hist = NULL
    /\ ix = NULL
    /\ ig = NULL
    /\ lz = NULL
    /\ fm = NULL
    /\ user = NULL
    /\ OthersInit

NextThreads ==
    /\ UNCHANGED <<cache, disk, ghost, ret, op, nops, hist, ix, ig, lz, fm, user, others>>
    /\ \E t \in BuildThreads :
          \/ BeginCall(t)
          \/ EndCall(t)
          \/ PthreadCreate(t)
          \/ PthreadJoin(t)
          \/ SequenceReturns(t)

SpecThreads == InitThreads /\ [][NextThreads]_vars

\* the threads that are inside a call on the indexer x
Inside(x) == { t \in BuildThreads : Running(t) /\ th.busy[t] /\ Current(t).x = x }

\* C30: no thread inserts into, sorts or groups an indexer while another
\* thread is inside a call on the same indexer, and a thread looks an
\* indexer up only if it sorted it itself or the thread that sorted it has
\* been joined.
C30_SingleWriter ==
    \A x \in BuildIndexers :
       /\ \A t, u \in Inside(x) : t # u => Current(t).op \notin WriteOps
       /\ \A t \in Inside(x) :
             Current(t).op = "retrieveKey"
             => th.sorter[x] = t \/ th.sorter[x] \in th.joined

\* parseCommits and parseRepos look usersById up at the same time, after
\* parseUsers was joined, while the sorting threads of parseRepos have not
\* been started
C30_Witness ==
    /\ Inside("usersById") = {T_MAIN, T_REPOS}
    /\ th.sorter["usersById"] = T_USERS
    /\ T_USERS \in th.joined
    /\ th.alive[T_REPOSBYID] = "none"

(***************************************************************************)
(* solveStaticQueries: the loop over the commits of one repo, which sets   *)
(* the friendship bits of each commit through a Lazy, and the commits file *)
(* as a later run loads it.                                                *)
(***************************************************************************)
\* the owner of the repo and the two other users
StaticOwner == 1
StaticUsers == {1, 2, 3}

\* the lists of followers and of following of the owner, and of another user
OwnerLists == UNION { [1..n -> StaticUsers \ {StaticOwner}] : n \in 0..2 }
OtherLists == { <<>>, <<StaticOwner>> }

\* the commits of the repo: author and committer
StaticCommitIds == { <<2, 2>>, <<2, 3>>, <<3, 2>> }
StaticCommitFiles == UNION { [1..n -> StaticCommitIds] : n \in 1..2 }

\* a commit as filterCommits stored it: both bits false
StoredCommit(ids) ==
    [author_id |-> ids[1], committer_id |-> ids[2],
     author_friend |-> FALSE, committer_friend |-> FALSE]

\* areUsersFriendsByIdAndLazys(c, a, b, one, two)
areUsersFriendsByIdAndLazys(a, b, one, two) ==
    /\ containedInSortedArray(two[user_friends_list], two[user_friends], a)
    /\ containedInSortedArray(one[user_friends_list], one[user_friends], b)

\* one turn of the loop over the commits of the repo: the bits of the commit
\* after printLazyToFile
staticQueriesCommit(users, ownerId, commit) ==
    [commit EXCEPT
        !.author_friend =
            IF areUsersFriendsByIdAndLazys(commit.author_id, ownerId,
                                           users[commit.author_id], users[ownerId])
            THEN TRUE ELSE @,
        !.committer_friend =
            IF /\ commit.author_id # commit.committer_id
               /\ areUsersFriendsByIdAndLazys(commit.committer_id, ownerId,
                                              users[commit.committer_id], users[ownerId])
            THEN TRUE ELSE @]

\* the catalog when solveStaticQueries reaches the commits of the repo:
\* users holds each user as parseUsers stored it, read the user as its line
\* was read
StaticInit(read, commits) ==
    [ read |-> read,
      users |-> [id \in StaticUsers |-> calculateFriends(read[id])],
      commits |-> [k \in 1..Len(commits) |-> StoredCommit(commits[k])],
      j |-> 0,
      phase |-> "solveStaticQueries",
      loaded |-> <<>> ]

\* for (j ...) of solveStaticQueries
StaticQueriesCommit ==
    /\ ct.phase = "solveStaticQueries"
    /\ ct.j < Len(ct.commits)
    /\ ct' = [ct EXCEPT !.commits[ct.j + 1] =
                            staticQueriesCommit(ct.users, StaticOwner, ct.commits[ct.j + 1]),
                        !.j = @ + 1]

\* the end of the loop, and freeCatalog: freeCache flushes the commits file
StaticFreeCatalog ==
    /\ ct.phase = "solveStaticQueries"
    /\ ct.j = Len(ct.commits)
    /\ ct' = [ct EXCEPT !.phase = "freed"]

\* loadCatalog of the next run, and the commits read back
StaticLoadCatalog ==
    /\ ct.phase = "freed"
    /\ ct' = [ct EXCEPT !.phase = "loaded", !.loaded = ct.commits]

InitStatic ==
    /\ \E ofollowers \in OwnerLists, ofollowing \in OwnerLists :
          \E afollowers \in [StaticUsers \ {StaticOwner} -> OtherLists] :
             \E afollowing \in [StaticUsers \ {StaticOwner} -> OtherLists] :
                \E commits \in StaticCommitFiles :
                   ct = StaticInit(
                          [id \in StaticUsers |->
                             IF id = StaticOwner THEN UserWithLists(ofollowers, ofollowing)
                             ELSE UserWithLists(afollowers[id], afollowing[id])],
                          commits)
    /\ cache = NULL
    /\ disk = NULL
    /\ ghost = NULL
    /\ ret = NULL
    /\ op = NULL
    /\ nops = NULL
    /\ hist = NULL
    /\ th = NULL
    /\ ix = NULL
    /\ ig = NULL
    /\ lz = NULL
    /\ fm = NULL
    /\ user = NULL
    /\ dt = NULL
    /\ tm = NULL
    /\ qs = NULL

NextStatic ==
    /\ UNCHANGED <<cache, disk, ghost, ret, op, nops, hist, th, ix, ig, lz, fm, user,
                   dt, tm, qs>>
    /\ \/ StaticQueriesCommit
       \/ StaticFreeCatalog
       \/ StaticLoadCatalog

SpecStatic == InitStatic /\ [][NextStatic]_vars

\* a follows and is followed by b, and b follows and is followed by a, in
\* the lists as they were read
FriendsOfEachOther(a, b) ==
    /\ a \in IdsOf(ct.read[b][user_follower_list]) \cap IdsOf(ct.read[b][user_following_list])
    /\ b \in IdsOf(ct.read[a][user_follower_list]) \cap IdsOf(ct.read[a][user_following_list])

\* the bits of the commits are the friendships with the owner
BitsAreFriendships(commits) ==
    \A k \in 1..Len(commits) :
       /\ commits[k].author_friend <=> FriendsOfEachOther(commits[k].author_id, StaticOwner)
       /\ commits[k].committer_friend
          <=> /\ commits[k].committer_id # commits[k].author_id
              /\ FriendsOfEachOther(commits[k].committer_id, StaticOwner)

\* C31: after solveStaticQueries the bit of the author of each commit says
\* whether the author and the owner of the repo are friends of each other,
\* the bit of the committer whether the committer is another user than the
\* author and is a friend of the owner, and the commits loaded by a later run
\* have the same bits.
C31_FriendshipBits ==
    /\ ct.phase = "freed" => BitsAreFriendships(ct.commits)
    /\ ct.phase = "loaded" => ct.loaded = ct.commits /\ BitsAreFriendships(ct.loaded)

(***************************************************************************)
(* readDate on the token of a date with its time (DATE_TIME of readFormat) *)
(***************************************************************************)
\* the four characters of the year and the two of each other part
YearTokens == { <<"2", "0", "0", "5">>, <<"2", "0", "2", "0">>, <<"2", "0", "2", "2">>,
                <<"2", "0", "2", "1">> }
MonthTokens == { <<"0", "0">>, <<"0", "2">>, <<"0", "4">>, <<"1", "2">>, <<"1", "3">>,
                 <<"9", "9">> }
DayTokens == { <<"0", "0">>, <<"0", "6">>, <<"0", "7">>, <<"2", "9">>, <<"3", "1">> }
HourTokens == { <<"0", "0">>, <<"2", "3">>, <<"2", "4">>, <<"a", "b">> }
MinuteTokens == { <<"0", "0">>, <<"6", "0">>, <<"-", "1">> }
SecondTokens == { <<"5", "9">>, <<"6", "0">>, <<"1", "z">> }

\* the tokens: the parts with their separators, and tokens of another form
DateTimeTokens ==
    { Str(y \o <<"-">> \o mo \o <<"-">> \o d \o <<" ">> \o h \o <<":">> \o mi \o <<":">> \o s) :
        y \in YearTokens, mo \in MonthTokens, d \in DayTokens, h \in HourTokens,
        mi \in MinuteTokens, s \in SecondTokens }
    \cup { Str(<<"2", "0", "1", "0", "-", "0", "1", "-", "1", "5">>),
           Str(<<"2", "0", "1", "0", "-", "0", "1", "-", "1", "5", "T",
                 "1", "0", ":", "0", "0", ":", "0", "0">>),
           Str(<<"2", "0", "1", "0", ":", "0", "1", ":", "1", "5", " ",
                 "1", "0", ":", "0", "0", ":", "0", "0">>) }

\* the caller of readDate: the token, what the stack holds beside
\* monthsLength, and the result once readDate has returned
TimestampInit(str, outside) ==
    [ str |-> str, outside |-> outside, phase |-> "token", ok |-> FALSE,
      date |-> setDate(0, 0, 0, 0, 0, 0) ]

\* readDate(temp, temp_length, getMember(f, dest, i), true)
ReadDate ==
    /\ dt.phase = "token"
    /\ dt' = [dt EXCEPT !.phase = "read",
                        !.ok = readDate(dt.str, Len(dt.str), dt.date, TRUE, dt.outside).ok,
                        !.date = readDate(dt.str, Len(dt.str), dt.date, TRUE, dt.outside).date]

InitTimestamp ==
    /\ \E str \in DateTimeTokens, outside \in OutsideVals : dt = TimestampInit(str, outside)
    /\ cache = NULL
    /\ disk = NULL
    /\ ghost = NULL
    /\ ret = NULL
    /\ op = NULL
    /\ nops = NULL
    /\ hist = NULL
    /\ th = NULL
    /\ ix = NULL
    /\ ig = NULL
    /\ lz = NULL
    /\ fm = NULL
    /\ user = NULL
    /\ tm = NULL
    /\ ct = NULL
    /\ qs = NULL

NextTimestamp ==
    /\ UNCHANGED <<cache, disk, ghost, ret, op, nops, hist, th, ix, ig, lz, fm, user,
                   tm, ct, qs>>
    /\ ReadDate

SpecTimestamp == InitTimestamp /\ [][NextTimestamp]_vars

\* the n characters of str from position from (counted from 0) are digits
Numeric(str, from, n) == \A k \in (from + 1)..(from + n) : IsDigit(str[k])

\* the number those digits write
RECURSIVE NumberOf(_, _, _)
NumberOf(str, from, n) ==
    IF n = 0 THEN 0
    ELSE 10 * NumberOf(str, from, n - 1) + (str[from + n] - Ascii["0"])

\* the days of a month of the calendar
DaysIn(year, month) ==
    IF month = 2
    THEN (IF (year % 4 = 0 /\ year % 100 # 0) \/ year % 400 = 0 THEN 29 ELSE 28)
    ELSE IF month \in {4, 6, 9, 11} THEN 30 ELSE 31

\* the token has the form YYYY-MM-DD HH:MM:SS with six numbers
TimestampForm(str) ==
    /\ Len(str) = 19
    /\ str[5] = Ascii["-"] /\ str[8] = Ascii["-"] /\ str[11] = Ascii[" "]
    /\ str[14] = Ascii[":"] /\ str[17] = Ascii[":"]
    /\ Numeric(str, 0, 4) /\ Numeric(str, 5, 2) /\ Numeric(str, 8, 2)
    /\ Numeric(str, 11, 2) /\ Numeric(str, 14, 2) /\ Numeric(str, 17, 2)

\* the numbers of the token are an instant of the calendar from 2005-04-07
\* 00:00:00 on and before the current time
TimestampInRange(str) ==
    /\ NumberOf(str, 5, 2) \in 1..12
    /\ NumberOf(str, 8, 2) \in 1..DaysIn(NumberOf(str, 0, 4), NumberOf(str, 5, 2))
    /\ NumberOf(str, 11, 2) \in 0..23
    /\ NumberOf(str, 14, 2) \in 0..59
    /\ NumberOf(str, 17, 2) \in 0..59
    /\ dateCompare(setDate(2005, 4, 7, 0, 0, 0),
                   setDate(NumberOf(str, 0, 4), NumberOf(str, 5, 2), NumberOf(str, 8, 2),
                           NumberOf(str, 11, 2), NumberOf(str, 14, 2),
                           NumberOf(str, 17, 2))) <= 0
    /\ dateCompare(setDate(NumberOf(str, 0, 4), NumberOf(str, 5, 2), NumberOf(str, 8, 2),
                           NumberOf(str, 11, 2), NumberOf(str, 14, 2),
                           NumberOf(str, 17, 2)), CurrentDate) < 0

\* C32: readDate accepts the token of a date with its time iff the token has
\* the form YYYY-MM-DD HH:MM:SS with six numbers that are an instant of the
\* calendar, not before 2005-04-07 00:00:00 and before the current time.
C32_TimestampValidation ==
    dt.phase = "read" => (dt.ok <=> TimestampForm(dt.str) /\ TimestampInRange(dt.str))

\* C33: sortIndexer on an indexer without entries returns, and leaves the
\* index empty with elem_no = 0.
C33_SortEmpty ==
    ig.name = "sortIndexer" /\ ix.elem_no = 0 => ~ix.crashed /\ ix.index = <<>>

\* the entries of the runs 0 .. j of sortIndexer on elem_no entries
RECURSIVE RunSizesSum(_, _, _)
RunSizesSum(elem_no, k, j) ==
    IF j < 0 THEN 0 ELSE RunSize(elem_no, k, j) + RunSizesSum(elem_no, k, j - 1)

\* C34: sortIndexer on N >= 1 entries makes k = ceil(N / MAX_FILE_LINES) runs
\* whose sizes sum to N, none larger than MAX_FILE_LINES, and no run reads
\* more entries into the run buffer than the N / k the buffer was allocated for.
C34_RunBufferBound ==
    ig.name = "sortIndexer" /\ ix.elem_no >= 1 =>
        LET k == RunCount(ix.elem_no)
        IN /\ k * MAX_FILE_LINES >= ix.elem_no /\ (k - 1) * MAX_FILE_LINES < ix.elem_no
           /\ RunSizesSum(ix.elem_no, k, k - 1) = ix.elem_no
           /\ \A j \in 0 .. k - 1 :
                 /\ RunSize(ix.elem_no, k, j) <= MAX_FILE_LINES
                 /\ RunSize(ix.elem_no, k, j) <= BufferLines(ix.elem_no, k)

(***************************************************************************)
(* The map of the cache across refreshes: one caller reads, writes and     *)
(* refreshes, and nothing else.                                            *)
(***************************************************************************)
NextRefresh ==
    /\ nops < MaxOps
    /\ UNCHANGED <<hist, th, ix, ig, lz, fm, user, others>>
    /\ \/ \E a \in ReadArgs(NumPages) : GetStr(a[1], a[2], a[3])
       \/ \E a \in WriteArgs(NumPages) : SetStr(a[1], a[2], a[3])
       \/ \E f \in Files : RefreshCacheFile(f)
       \/ RefreshCache

SpecRefresh == Init /\ [][NextRefresh]_vars

\* no key is mapped to two lines
MappedOnce(c) ==
    \A e1 \in c.posLinePairs, e2 \in c.posLinePairs :
        c.key[e1.line] = c.key[e2.line] => e1 = e2

\* every entry of the map leads to a line that carries the key of the entry
EntriesCarryKey(c) == \A e \in c.posLinePairs : c.key[e.line] = e.hkey

\* a getStr or setStr leaves findable every line that was findable and that it
\* did not rekey
StaysFindable ==
    \A l \in Lines(cache) :
        (/\ l \in Findable(cache)
         /\ op'.name \in {"getStr", "setStr"}
         /\ cache'.key[l] = cache.key[l]) => l \in Findable(cache')

\* the pages the last getStr or setStr went through
PagesOf(o) ==
    {Key(fileno(o.file), pg * CACHE_LINE_SIZE) :
        pg \in (o.pos \div CACHE_LINE_SIZE) ..
               ((o.pos + Len(o.buf) - 1) \div CACHE_LINE_SIZE)}

\* with a line for each of them, the pages the last getStr or setStr loaded
\* are all findable
LoadedFindable ==
    op.name \in {"getStr", "setStr"} /\ Cardinality(PagesOf(op)) <= cache.line_num =>
        \A k \in PagesOf(op) : Search(cache, k) # NULL

\* C35: across getStr, setStr, refreshCacheFile and refreshCache every key is
\* mapped to at most one line, every entry of the map leads to a line that
\* carries its key, and a line loaded after a refresh stays findable until
\* that same line is reused for another key: the reuse of a stale line that a
\* refresh dropped removes no entry of another line that holds the same key.
C35_MapConsistent ==
    /\ [](MappedOnce(cache) /\ EntriesCarryKey(cache) /\ LoadedFindable)
    /\ [][StaysFindable]_vars

\* C36: write-back stays inside the file. The caller only sets bytes inside
\* the files, and whatever is written back, also from a line that was loaded
\* with a short read, every file keeps its length: no byte appears on disk
\* beyond the old end of the file.
C36_WriteBackInsideFile ==
    \A f \in Files : Len(disk[f]) = FileLen(f, NumPages)

(***************************************************************************)
(* Printing a Lazy that moves between two records of a file: the Lazy is   *)
(* made at (NULL, 0) and pointed at a record, the caller fetches members   *)
(* and positions and sets members in any order, and prints the Lazy at the *)
(* end.                                                                    *)
(***************************************************************************)
\* the calls made on the Lazy
MaxLazyCalls == 5

\* two records lie one after the other, base bytes into the file
TwoRecordsFile(format, recs, base) ==
    [i \in 1..base |-> InitByte(DataFile, i - 1)]
    \o printFormat(format, recs[1]) \o printFormat(format, recs[2])
    \o <<InitByte(DataFile, base)>>

\* the position of each of the two records
RecordsAt(format, recs, base) ==
    <<base, base + Len(printFormat(format, recs[1]))>>

\* what the entries of string_pos can hold when malloc returns them: any
\* number, of which two positions of the file are taken
JunkOffsets == {0, 3}

\* makeLazy(NULL, 0, format, obj), as the catalog makes its Lazys
FlushInit(format, recs, base, junk) ==
    [ l |-> [makeLazy(NoFile, 0, format, EmptyObj(format)) EXCEPT
                !.string_pos = [i \in DOMAIN @ |-> IF i = 0 THEN 0 ELSE junk]],
      rec |-> recs[1], base |-> 0, phase |-> "made", member |-> format.members,
      value |-> 0, recs |-> recs, at |-> RecordsAt(format, recs, base) ]

InitFlush ==
    /\ \E alt0 \in BOOLEAN :
          /\ cache = getCache(MaxLines, alt0)
          /\ ghost = GhostInit(MaxLines)
    /\ \E format \in LazyFormats, junk \in JunkOffsets :
       \E rec \in LazyRecords(format) :
          /\ disk = [InitDisk(NumPages) EXCEPT
                       ![DataFile] = TwoRecordsFile(format, <<rec, rec>>, LazyBase)]
          /\ lz = FlushInit(format, <<rec, rec>>, LazyBase, junk)
    /\ ret = <<>>
    /\ op = NoOp
    /\ nops = 0
    /\ hist = <<>>
    /\ th = [t \in Threads |-> Idle]
    /\ ix = makeIndexer
    /\ ig = IdxGhostInit
    /\ fm = NULL
    /\ user = NULL
    /\ OthersInit

\* setLazyAddress(l, file, pos) on the record r of the file
FlushSetLazyAddress(r) ==
    /\ cache' = cache /\ disk' = disk
    /\ lz' = [lz EXCEPT !.l = setLazyAddress(LazySt, DataFile, lz.at[r]).l,
                        !.rec = lz.recs[r], !.base = lz.at[r],
                        !.phase = "retargeted"]

\* *setLazyMember(l, member) = value, whatever was fetched before
FlushSetLazyMember(member, value) ==
    /\ member \notin LengthMembers(lz.l.format)
    /\ lz' = [lz EXCEPT !.l = setLazyMember(LazySt, member, value).l,
                        !.phase = "set"]
    /\ UNCHANGED <<cache, disk>>

FlushGetLazyMember(member) == LazyCommit(getLazyMember(LazySt, member), lz.phase)

FlushGetPosOfLazyMember(member) ==
    LazyCommit(getPosOfLazyMember(LazySt, member), lz.phase)

FlushPrintLazyToFile(stack) == LazyCommit(printLazyToFile(LazySt, stack), "printed")

NextFlush ==
    /\ nops < MaxLazyCalls
    /\ lz.phase # "printed"
    /\ nops' = nops + 1
    /\ UNCHANGED <<ghost, ret, op, hist, th, ix, ig, fm, user, others>>
    /\ \/ \E r \in 1..2 : FlushSetLazyAddress(r)
       \/ /\ lz.phase # "made"
          /\ \E member \in 0..(lz.l.format.members - 1) : FlushGetLazyMember(member)
       \/ /\ lz.phase # "made"
          /\ \E member \in 0..(lz.l.format.members - 1) : FlushGetPosOfLazyMember(member)
       \/ /\ lz.phase # "made"
          /\ \E member \in 0..(lz.l.format.members - 1) :
             \E value \in SetVals(getMemberType(lz.l.format, member)) :
                FlushSetLazyMember(member, value)
       \/ /\ lz.phase = "set"
          /\ \E stack \in StackBytes : FlushPrintLazyToFile(stack)

SpecFlush == InitFlush /\ [][NextFlush]_vars

\* the position of field i of the record rec that starts at p
RECURSIVE FieldOffset(_, _, _, _)
FieldOffset(format, rec, p, i) ==
    IF i = 0 THEN p
    ELSE FieldOffset(format, rec, p, i - 1) + FieldSize(format, rec, i - 1)

\* the positions printLazyToFile hands to setStr: l->string_pos[i] of every
\* altered member i
PrintedAt(l) == {<<i, l.string_pos[i]>> : i \in {m \in DOMAIN l.altered : l.altered[m]}}

\* C37: after the Lazy was pointed at a record at p, printLazyToFile writes
\* every altered field i at p plus the sizes of the fields 0 .. i-1, whether
\* or not a member or a position was fetched before the field was set.
C37_FlushOffset ==
    lz.phase = "printed" =>
        \A w \in PrintedAt(lz.l) :
            w[2] = FieldOffset(lz.l.format, lz.rec, lz.base, w[1])

(***************************************************************************)
(* Lookups of a group by key: the index is built, sorted and grouped, and  *)
(* the caller asks for the group of a key and for its size, as the queries *)
(* over a language and over a repo do.                                     *)
(***************************************************************************)
\* getEmbeddedValue(i, key, c); getGroup(i, p, c) is a macro for it
getEmbeddedValue(i, key) == retrieveEmbeddedValue(i, retrieveKey(i, key).res)
getGroup(i, p) == getEmbeddedValue(i, p)

\* the key asked for, the group returned and the number of elements the
\* caller goes through
GroupGhost(name, key, group, res) ==
    [name |-> name, key |-> key, group |-> group, res |-> res]

GrpInsertIntoIndex(key, value) ==
    /\ ~ix.grouped
    /\ ix.elem_no < MaxShared
    /\ ix' = insertIntoIndex(ix, key, value)
    /\ ig' = GroupGhost("insertIntoIndex", 0, 0, 0)
    /\ UNCHANGED <<cache, disk>>

GrpSortIndexer ==
    /\ CohSortIndexer
    /\ ig.name = "insertIntoIndex"

GrpGroupIndexer(removeDuplicateVals) ==
    /\ CohGroupIndexer(removeDuplicateVals)
    /\ ig.name = "sortIndexer"

\* pos_t g = getGroup(i, key, c); int n = getGroupSize(i, g, c); and the loop
\* over the n elements of the group
GrpGetGroup(key) ==
    /\ ix.grouped /\ ix.elem_no > 0
    /\ ix' = flushIndex(ix)
    /\ cache' = LoadPage(IndexLoaded(ix, cache), ix.values_fd, <<>>, ix.values)
    /\ ig' = GroupGhost("getGroup", key, getGroup(IndexView(ix, cache), key),
                        getGroupSize(ix, getGroup(IndexView(ix, cache), key),
                                     IndexLoaded(ix, cache)))
    /\ UNCHANGED disk

NextGroup ==
    /\ ~ix.crashed
    /\ UNCHANGED <<ghost, ret, op, nops, hist, th, lz, fm, user, others>>
    /\ \/ \E key \in Keys, value \in Values : GrpInsertIntoIndex(key, value)
       \/ GrpSortIndexer
       \/ \E removeDuplicateVals \in BOOLEAN : GrpGroupIndexer(removeDuplicateVals)
       \/ \E key \in LookupKeys : GrpGetGroup(key)

SpecGroup == InitCoherence /\ [][NextGroup]_vars

\* the offsets of the blocks of the groups in the values file
GroupBlocks(i) == {i.index[a].value : a \in 1..Len(i.index)}

\* C38: the group looked up for a key that the grouped index does not hold
\* is the offset of no block of a group, and the caller goes through no
\* element.
C38_AbsentKeyNoGroup ==
    ig.name = "getGroup" /\ ig.key \notin KeysOf(ix.index) =>
        ig.group \notin GroupBlocks(ix) /\ ig.res = 0

(***************************************************************************)
(* Two dates compacted into keys of an index and compared (catalog.c).     *)
(***************************************************************************)
\* (pos_t)c for an int c: pos_t is unsigned long long, so the int is sign
\* extended to 8 bytes, here with the least significant byte first
WidenToPosT(c) == ToBytes(c, SizeofPosT)

RECURSIVE directCmpSigned(_, _)
RECURSIVE directCmpPosT(_, _)

\* a < b ? -1 : a > b on long long, where a byte from 128 on at the top makes
\* the number negative
directCmpSigned(a, b) ==
    IF a = <<>> THEN 0
    ELSE IF Len(a) = SizeofPosT /\ (a[Len(a)] >= 128) # (b[Len(b)] >= 128)
         THEN (IF a[Len(a)] >= 128 THEN -1 ELSE 1)
    ELSE IF a[Len(a)] < b[Len(b)] THEN -1
    ELSE IF a[Len(a)] > b[Len(b)] THEN 1
    ELSE directCmpSigned(SubSeq(a, 1, Len(a) - 1), SubSeq(b, 1, Len(b) - 1))

\* directCmp(f, a, g, b, c) on pos_t: a < b ? -1 : a > b, unsigned, from the
\* most significant byte down
directCmpPosT(a, b) ==
    IF a = <<>> THEN 0
    ELSE IF a[Len(a)] < b[Len(b)] THEN -1
    ELSE IF a[Len(a)] > b[Len(b)] THEN 1
    ELSE directCmpPosT(SubSeq(a, 1, Len(a) - 1), SubSeq(b, 1, Len(b) - 1))

\* the dates of the keys: the first and the last year that fit 6 bits and the
\* years on both sides of the sign bit, with the least and the greatest value
\* of every other component
OrderDates ==
    { setDate(year, month, day, hour, minute, second) :
        year \in {2005, 2036, 2037, 2068}, month \in {1, 12}, day \in {1, 31},
        hour \in {0, 23}, minute \in {0, 59}, second \in {0, 59} }

\* the history of the two dates:
\*   a, b    the dates
\*   ka, kb  the keys (pos_t)getCompactedDate of a and b, as ints
\*   phase   "dates", "keys", "compared"
\*   cmp     what directCmp returned for the keys
OrderInit(a, b) == [a |-> a, b |-> b, ka |-> 0, kb |-> 0, phase |-> "dates", cmp |-> 0]

\* pos_t date1 = (pos_t)getCompactedDate(startDate), and the same for date2
OrderKeys ==
    /\ dt.phase = "dates"
    /\ dt' = [dt EXCEPT !.ka = getCompactedDate(dt.a), !.kb = getCompactedDate(dt.b),
                        !.phase = "keys"]

\* the comparison retrieveKeyLowerBound and sortIndexer make of two keys
OrderDirectCmp ==
    /\ dt.phase = "keys"
    /\ dt' = [dt EXCEPT !.cmp = directCmpPosT(WidenToPosT(dt.ka), WidenToPosT(dt.kb)),
                        !.phase = "compared"]

InitOrder ==
    /\ cache = NULL
    /\ ghost = NULL
    /\ disk = NULL
    /\ ret = NULL
    /\ op = NULL
    /\ nops = NULL
    /\ hist = NULL
    /\ th = NULL
    /\ ix = NULL
    /\ ig = NULL
    /\ lz = NULL
    /\ fm = NULL
    /\ user = NULL
    /\ tm = NULL
    /\ ct = NULL
    /\ qs = NULL
    /\ \E a \in OrderDates, b \in OrderDates : dt = OrderInit(a, b)

NextOrder ==
    /\ UNCHANGED <<cache, disk, ghost, ret, op, nops, hist, th, ix, ig, lz, fm, user,
                   tm, ct, qs>>
    /\ \/ OrderKeys
       \/ OrderDirectCmp

SpecOrder == InitOrder /\ [][NextOrder]_vars

\* a is chronologically earlier than b
Earlier(a, b) ==
    \/ a.year < b.year
    \/ a.year = b.year /\ a.month < b.month
    \/ a.year = b.year /\ a.month = b.month /\ a.day < b.day
    \/ a.year = b.year /\ a.month = b.month /\ a.day = b.day /\ a.hour < b.hour
    \/ /\ a.year = b.year /\ a.month = b.month /\ a.day = b.day /\ a.hour = b.hour
       /\ a.minute < b.minute
    \/ /\ a.year = b.year /\ a.month = b.month /\ a.day = b.day /\ a.hour = b.hour
       /\ a.minute = b.minute /\ a.second < b.second

\* C39: for two dates of the years 2005 to 2068, the first is earlier than
\* the second iff directCmp is negative on their keys, the ints of
\* getCompactedDate widened to pos_t, also when the year sets the sign bit of
\* the int.
C39_PackedOrder ==
    dt.phase = "compared" => (Earlier(dt.a, dt.b) <=> dt.cmp < 0)

\* a date of 2036 and a date of 2037, whose int is negative, were compared
C39_Witness ==
    /\ dt.phase = "compared"
    /\ dt.a.year = 2036 /\ dt.b.year = 2037
    /\ dt.ka > 0 /\ dt.kb < 0
    /\ dt.cmp < 0

\* parseCommits, the loop over the records of the compressed commits: the
\* entries of commitsByRepo; collaborators gets entries under the same keys
RECURSIVE parseCommitsLoop(_, _, _)
parseCommitsLoop(commitsByRepo, compressed_commits, pos) ==
    IF compressed_commits = <<>> THEN commitsByRepo
    ELSE parseCommitsLoop(insertIntoIndex(commitsByRepo, Head(compressed_commits).repo, pos),
                          Tail(compressed_commits), pos + 1)

\* the keys of commitsByRepo and of collaborators after the build
CommitsByRepoKeys == KeysOf(parseCommitsLoop(makeIndexer, ct.compressed_commits, 0).index)

=============================================================================
